---------------------------- MODULE Spec2Model ----------------------------
(***************************************************************************)
(* Chameleon browser extension: SeedManager (seeded random field and seed  *)
(* lifecycle) and SpoofingEngine (coherent profile synthesis), modelled    *)
(* from src/spoofingengine.js.                                             *)
(*                                                                         *)
(* Encoding of JavaScript values:                                          *)
(*   - a dynamically typed value is a record [t, s, n]: Str(s), Num(n),    *)
(*     JsNull, JsUndefined, JsInfinity (see below);                        *)
(*   - an unsigned 32-bit value v is the pair <<v \div 2^16, v % 2^16>>    *)
(*     so that every product stays below 2^31;                             *)
(*   - the double returned by SeedManager.random is the numerator n of     *)
(*     n / 0xFFFFFFFF, kept as such a pair (exact rational arithmetic).    *)
(***************************************************************************)
EXTENDS Integers, Sequences, FiniteSets, TLC

W16 == 65536

(***************************************************************************)
(* Dynamically typed JavaScript values.                                    *)
(***************************************************************************)
Str(s)      == [t |-> "string", s |-> s, n |-> 0]
Num(n)      == [t |-> "number", s |-> "", n |-> n]
JsNull      == [t |-> "null", s |-> "", n |-> 0]
JsUndefined == [t |-> "undefined", s |-> "", n |-> 0]
JsInfinity  == [t |-> "number", s |-> "Infinity", n |-> 0]
JsNaN       == [t |-> "number", s |-> "NaN", n |-> 0]

\* ToBoolean
Truthy(v) ==
    CASE v.t = "string" -> v.s # ""
      [] v.t = "number" -> v.s = "Infinity" \/ (v.s = "" /\ v.n # 0)
      [] OTHER -> FALSE

\* a || b
Or(a, b) == IF Truthy(a) THEN a ELSE b

(***************************************************************************)
(* String helpers (String.prototype.includes, template literals).          *)
(***************************************************************************)
CharAt(s, i) == SubSeq(s, i, i)

Includes(s, sub) ==
    \E i \in 1..(Len(s) - Len(sub) + 1) : SubSeq(s, i, i + Len(sub) - 1) = sub

\* v?.includes(sub) in a condition: undefined (falsy) on null / undefined
OptIncludes(v, sub) == v.t = "string" /\ Includes(v.s, sub)

\* `${v}` in a template literal (of the values that occur: strings, null, undefined)
JsStr(v) ==
    CASE v.t = "string" -> v.s
      [] v.t = "null" -> "null"
      [] v.t = "undefined" -> "undefined"
      [] OTHER -> IF v.s # "" THEN v.s ELSE ToString(v.n)

\* the characters a key `${seed}-${index}` is made of, and their char codes
KeyChars == "0123456789abcdef-"
KeyCodes == <<48, 49, 50, 51, 52, 53, 54, 55, 56, 57, 97, 98, 99, 100, 101, 102, 45>>
charCodeAt(s, i) == KeyCodes[CHOOSE k \in 1..Len(KeyChars) : CharAt(KeyChars, k) = CharAt(s, i)]

(***************************************************************************)
(* SeedManager.hash: FNV-1a over the char codes, 32-bit.                   *)
(***************************************************************************)
RECURSIVE Xor(_, _)
Xor(a, b) ==
    IF a = 0 THEN b
    ELSE IF b = 0 THEN a
    ELSE 2 * Xor(a \div 2, b \div 2) + (((a % 2) + (b % 2)) % 2)

FNV_OFFSET_BASIS == <<33052, 40389>>       \* 2166136261 = 0x811C9DC5
FNV_PRIME_LOW    == 403                    \* 16777619 = 2^24 + 0x193
FNV_PRIME_SHIFT  == 256                    \* 2^24 = 2^16 * 2^8

\* Math.imul(h, 16777619), kept modulo 2^32
Imul(h) ==
    LET lowProd == h[2] * FNV_PRIME_LOW
    IN  << ((h[1] * FNV_PRIME_LOW) + (lowProd \div W16) + ((h[2] % FNV_PRIME_SHIFT) * FNV_PRIME_SHIFT)) % W16,
           lowProd % W16 >>

\* one round: hash ^= charCode; hash = Math.imul(hash, FNV_PRIME)
FnvRound(h, c) == Imul(<<Xor(h[1], c \div W16), Xor(h[2], c % W16)>>)

\* the loop of hash(), from position i on; every intermediate value is a
\* 32-bit value (the test also makes TLC evaluate each round before the next)
IsUint32(h) == h[1] \in 0..(W16 - 1) /\ h[2] \in 0..(W16 - 1)

RECURSIVE FnvFrom(_, _, _)
FnvFrom(h, str, i) ==
    IF i > Len(str) THEN h
    ELSE LET next == FnvRound(h, charCodeAt(str, i))
         IN  IF IsUint32(next) THEN FnvFrom(next, str, i + 1) ELSE next

HexDigits == "0123456789abcdef"
Hex4(n) == CharAt(HexDigits, (n \div 4096) + 1) \o CharAt(HexDigits, ((n \div 256) % 16) + 1)
           \o CharAt(HexDigits, ((n \div 16) % 16) + 1) \o CharAt(HexDigits, (n % 16) + 1)

\* (hash >>> 0).toString(16).padStart(8, '0')
ToHex8(h) == Hex4(h[1]) \o Hex4(h[2])

hash(str) == ToHex8(FnvFrom(FNV_OFFSET_BASIS, str, 1))

HexVal(c) == (CHOOSE k \in 1..16 : CharAt(HexDigits, k) = c) - 1
ParseHex4(s) == HexVal(CharAt(s, 1)) * 4096 + HexVal(CharAt(s, 2)) * 256
                + HexVal(CharAt(s, 3)) * 16 + HexVal(CharAt(s, 4))

\* parseInt(hash.substr(0, 8), 16)
ParseHex8(s) == <<ParseHex4(SubSeq(s, 1, 4)), ParseHex4(SubSeq(s, 5, 8))>>

(***************************************************************************)
(* Seeds of the model.                                                      *)
(***************************************************************************)
\* seeds the random source can yield: 64 hex digits each.  SeedOne is a seed
\* whose key for index 12 hashes to ffffffff.
SeedOne   == "4283fefc63f0cd0e873a0000c6d07ef7b77e90d3593ad699fc1f7c6b292009e7"
SeedTwo   == "a4c123b1612dd272d1371c17149d439536b3216fdaeeb975729fae923d5a4fd1"
SeedPool  == {SeedOne, SeedTwo}

\* indices passed to SeedManager.random by direct callers
RandomIndices == {1, 5, 12}


(***************************************************************************)
(* State.                                                                  *)
(***************************************************************************)
VARIABLES
    catalogFile,     \* environment: the outcome of loading profiles.json
    hostname,        \* environment: window.location.hostname
    profiles,        \* SpoofingEngine.profiles
    currentProfile,  \* SpoofingEngine.currentProfile (JsNull or a Profile)
    seedManager,     \* SpoofingEngine.seedManager is set
    initPc,          \* "idle", or "loading" while init() awaits loadProfiles()
    currentSeed,     \* SeedManager.currentSeed (JsNull or Str(seed))
    domainSeeds,     \* SeedManager.domainSeeds
    lastCall,        \* the last call completed and its outcome
    seen,            \* per seed and index, the first value random() returned
    built,           \* every Profile generateProfile() returned, with its inputs
    lastDraws,       \* the draws of the last generateProfile() that returned
    heldProfile,     \* the Profile object currentProfile referred to before the
                     \* last generateProfile() that returned, as it reads now
    fieldCall,       \* the last randomInt / randomChoice / randomWeightedChoice call
    noiseSeed,       \* CanvasInterceptor.seed
    imageData,       \* the ImageData object the caller of applyEdgeNoise holds
    noiseCall,       \* the last applyEdgeNoise call and its outcome
    webgl,           \* WebGLInterceptor: profile and parameterMap
    raster,          \* a canvas of the page: its bitmap, and what toDataURL and
                     \* getImageData returned since it was last drawn to
    meta,            \* MetaInterceptor: whether init() has run, the functions
                     \* in interceptedFunctions, and the last toString call
    nav,             \* the navigator's property descriptors, NavigatorInterceptor's
                     \* originals, and the last read of a property by the page
    limiter,         \* a limiter of createRateLimiter: the clock, its closure
                     \* (minInterval, lastCallTime), its calls, and the times
                     \* at which calls resolved
    worker,          \* the background service worker: the clock, chrome.storage
                     \* local and session, the tabs, the handlers in flight,
                     \* the periodic cleanup, the times of the rotations, the tabs
                     \* whose entry was written after their removal handler had
                     \* ended (late)
    content          \* the content script of a page: the injected script's
                     \* progress, isInitialized, profileData, the poll, and the
                     \* messages received with the last response

\* the state of the other scripts of the page and of the extension
pageVars == <<webgl, raster, meta, nav, limiter, worker, content>>

\* the state of the SeedManager helpers' last call, of the CanvasInterceptor
\* and of the other scripts
sideVars == <<fieldCall, noiseSeed, imageData, noiseCall, pageVars>>

vars == <<catalogFile, hostname, profiles, currentProfile, seedManager, initPc,
          currentSeed, domainSeeds, lastCall, seen, built, lastDraws, heldProfile,
          fieldCall, noiseSeed, imageData, noiseCall, pageVars>>

\* no draw recorded
NoDrawYet == <<-1, -1>>

(***************************************************************************)
(* SeedManager.random and the helpers built on it.  A draw is the pair     *)
(* num = parseInt(hash, 16); its value is num / 0xFFFFFFFF.                *)
(***************************************************************************)
NORM_DIVISOR == <<65535, 65535>>           \* 0xFFFFFFFF

Lt32(a, b) == a[1] < b[1] \/ (a[1] = b[1] /\ a[2] < b[2])

\* parseInt(hash(`${seed}-${index}`).substr(0, 8), 16)
DrawOf(seed, index) == ParseHex8(SubSeq(hash(seed \o "-" \o ToString(index)), 1, 8))

\* the draws of the seeds and indices of the model, computed once
MaxDrawIndex == 14
DrawMemo == [seed \in SeedPool |-> [index \in 0..MaxDrawIndex |-> DrawOf(seed, index)]]

\* random(index) as a sequential generator would give it: the index is
\* advanced by the number of draws already made from the seed
random_cursor(seed, index) ==
    DrawMemo[seed][(index + Cardinality({i \in RandomIndices : seen[seed][i] # NoDrawYet}))
                   % (MaxDrawIndex + 1)]

\* random(index) for the seed getSeed() returned
random(seed, index) == DrawMemo[seed][index]

\* the value num / 0xFFFFFFFF of a draw, compared with 1
DrawBelowOne(num) == Lt32(num, NORM_DIVISOR)

\* (num / 0xFFFFFFFF) * n for an integer 1 <= n < 2^15, as floor and exactness:
\* num * n = q1 * 2^32 + r1 = q1 * 0xFFFFFFFF + (q1 + r1)
ScaleDraw(num, n) ==
    LET lowProd == num[2] * n
        highSum == (num[1] * n) + (lowProd \div W16)
        q1      == highSum \div W16
        r1      == <<highSum % W16, lowProd % W16>>
        wraps   == r1[1] = W16 - 1 /\ r1[2] + q1 >= W16 - 1
    IN  [floor |-> IF wraps THEN q1 + 1 ELSE q1,
         exact |-> (q1 = 0 /\ r1 = <<0, 0>>) \/ (r1[1] = W16 - 1 /\ r1[2] + q1 = W16 - 1)]

\* randomInt(min, max, index): Math.floor(rand * (max - min + 1)) + min; for
\* min > max + 1 the product is negative and its floor is minus the ceiling
\* of rand * (min - max - 1)
randomInt(seed, min, max, index) ==
    LET Floor(scaled) == IF max - min + 1 >= 0 THEN scaled.floor
                         ELSE 0 - (scaled.floor + (IF scaled.exact THEN 0 ELSE 1))
    IN  Floor(ScaleDraw(random(seed, index),
                        IF max - min + 1 >= 0 THEN max - min + 1 ELSE min - max - 1)) + min

\* array[idx] for a 0-based idx: undefined past the end
ElementAt(array, idx) == IF idx + 1 \in DOMAIN array THEN array[idx + 1] ELSE JsUndefined

\* randomChoice(array, index)
randomChoice(seed, array, index) ==
    IF Len(array) = 0 THEN JsNull
    ELSE ElementAt(array, randomInt(seed, 0, Len(array) - 1, index))

RECURSIVE SumTo(_, _)
SumTo(weights, i) == IF i = 0 THEN 0 ELSE SumTo(weights, i - 1) + weights[i]

\* randomWeightedChoice() ignoring the weights
randomWeightedChoice_uniform(seed, items, weights, index) == randomChoice(seed, items, index)

\* randomWeightedChoice(items, weights, index): random = draw * totalWeight, then
\* random -= weights[i] until random <= 0, that is draw * totalWeight <= w1 + .. + wi
randomWeightedChoice(seed, items, weights, index) ==
    IF Len(items) = 0 THEN JsNull
    ELSE LET Pick(totalWeight, scaled) ==
                 LET Crossed(i) == scaled.floor < SumTo(weights, i)
                                   \/ (scaled.floor = SumTo(weights, i) /\ scaled.exact)
                 IN  IF totalWeight = 0 THEN items[1]
                     ELSE IF \E i \in 1..Len(items) : Crossed(i)
                          THEN items[CHOOSE i \in 1..Len(items) :
                                         Crossed(i) /\ \A j \in 1..(i - 1) : ~Crossed(j)]
                          ELSE items[Len(items)]
         IN  Pick(SumTo(weights, Len(weights)),
                  ScaleDraw(random(seed, index), SumTo(weights, Len(weights))))

(***************************************************************************)
(* More string operations used by the profile synthesizer.                 *)
(***************************************************************************)
UpperChars == "ABCDEFGHIJKLMNOPQRSTUVWXYZ"
LowerChars == "abcdefghijklmnopqrstuvwxyz"
LowerChar(c) ==
    IF \E k \in 1..26 : CharAt(UpperChars, k) = c
    THEN CharAt(LowerChars, CHOOSE k \in 1..26 : CharAt(UpperChars, k) = c)
    ELSE c

RECURSIVE LowerFrom(_, _)
LowerFrom(s, i) == IF i > Len(s) THEN "" ELSE LowerChar(CharAt(s, i)) \o LowerFrom(s, i + 1)

\* String.prototype.toLowerCase
toLowerCase(s) == LowerFrom(s, 1)

\* String.prototype.replace(pattern, replacement) with a string pattern:
\* the first occurrence only
Replace(s, pat, rep) ==
    IF Includes(s, pat)
    THEN LET i == CHOOSE k \in 1..(Len(s) - Len(pat) + 1) :
                      /\ SubSeq(s, k, k + Len(pat) - 1) = pat
                      /\ \A j \in 1..(k - 1) : SubSeq(s, j, j + Len(pat) - 1) # pat
         IN  SubSeq(s, 1, i - 1) \o rep \o SubSeq(s, i + Len(pat), Len(s))
    ELSE s

DecDigits == "0123456789"
IsDigit(c) == \E k \in 1..10 : CharAt(DecDigits, k) = c
DigitVal(c) == (CHOOSE k \in 1..10 : CharAt(DecDigits, k) = c) - 1

RECURSIVE DecValue(_, _)
DecValue(s, n) == IF n = 0 THEN 0 ELSE (DecValue(s, n - 1) * 10) + DigitVal(CharAt(s, n))

\* Number(key) for an object key: a decimal numeral, else NaN
ToNumber(s) ==
    IF Len(s) > 0 /\ \A i \in 1..Len(s) : IsDigit(CharAt(s, i))
    THEN Num(DecValue(s, Len(s)))
    ELSE JsNaN

(***************************************************************************)
(* Archetype records of the catalog (profiles.json, deviceArchetypes).     *)
(* An archetype is a record whose field has lists the properties that are  *)
(* present; "cpu", "ram", "gpu" stand for hardware.cpu, ..., "resolutions",*)
(* "colorDepth", "pixelDepth", "maxTouchPoints" for the display properties *)
(* and "languages" for locale.languages.  A weighted table {key: weight}   *)
(* is the sequence of its <<key, weight>> pairs in key order.              *)
(***************************************************************************)
AllFields == {"name", "weight", "platform", "os", "cpu", "ram", "gpu", "resolutions",
              "colorDepth", "pixelDepth", "maxTouchPoints", "languages", "fonts", "userAgent"}

Has(a, f) == f \in a.has
StrField(a, f) == IF Has(a, f) THEN Str(a[f]) ELSE JsUndefined
NumField(a, f) == IF Has(a, f) THEN Num(a[f]) ELSE JsUndefined

\* Object.keys(table) and Object.values(table)
Keys(table)   == [i \in 1..Len(table) |-> Str(table[i][1])]
Values(table) == [i \in 1..Len(table) |-> table[i][2]]

StrArray(seq) == [i \in 1..Len(seq) |-> Str(seq[i])]
NumArray(seq) == [i \in 1..Len(seq) |-> Num(seq[i])]

\* getDefaultProfiles()
getDefaultProfiles ==
    << [has |-> AllFields,
        name |-> "Default Windows PC",
        weight |-> 1,
        platform |-> "Win32",
        os |-> << <<"Windows 11", 100>> >>,
        cpu |-> << <<"Intel Core i5", 100>> >>,
        ram |-> << <<"16", 100>> >>,
        gpu |-> << <<"Intel Iris Xe Graphics", 100>> >>,
        resolutions |-> <<"1920x1080">>,
        colorDepth |-> 24,
        pixelDepth |-> 24,
        maxTouchPoints |-> 0,
        languages |-> <<"en-US", "en">>,
        fonts |-> <<"Arial", "Calibri", "Segoe UI", "Tahoma", "Verdana">>,
        userAgent |-> "Mozilla/5.0 (Windows NT 10.0; Win64; x64) AppleWebKit/537.36 (KHTML, like Gecko) Chrome/121.0.0.0 Safari/537.36"] >>

(***************************************************************************)
(* SpoofingEngine: the profile synthesizer.  seed is the value getSeed()   *)
(* returns during the synthesis, which every draw of the synthesis uses.   *)
(***************************************************************************)
\* navigator.userAgent of the host browser (read when the archetype has no userAgent)
HostUserAgent == "Mozilla/5.0 (X11; Linux x86_64) AppleWebKit/537.36 (KHTML, like Gecko) Chrome/120.0.0.0 Safari/537.36"

\* the index literal at each call site of the synthesizer
DrawIndex ==
    [archetype |-> 0, os |-> 1, cpu |-> 2, ram |-> 3, gpu |-> 4, resolution |-> 5,
     chromeVersion |-> 6, sampleRate |-> 7, maxChannelCount |-> 8,
     charging |-> 9, chargingTime |-> 10, dischargingTime |-> 11, level |-> 12]

\* a.weight || 0.1, in tenths
WeightTenths(a) == IF Has(a, "weight") /\ a.weight # 0 THEN 10 * a.weight ELSE 1

\* selectArchetype(): position in the catalog of the archetype chosen (the
\* catalog is a non-empty array here; see GenerateThrows)
selectArchetype(seed, archetypes) ==
    LET positions == [i \in 1..Len(archetypes) |-> i]
        weights   == [i \in 1..Len(archetypes) |-> WeightTenths(archetypes[i])]
    IN  archetypes[randomWeightedChoice(seed, positions, weights, DrawIndex.archetype)]

Table(a, f) == IF Has(a, f) THEN a[f] ELSE <<>>

\* selectOS(archetype)
selectOS(seed, archetype) ==
    LET osOptions == Keys(Table(archetype, "os"))
        osWeights == Values(Table(archetype, "os"))
    IN  [name     |-> randomWeightedChoice(seed, osOptions, osWeights, DrawIndex.os),
         platform |-> StrField(archetype, "platform")]

\* the branches of getCoreCount, in order: substrings tested, candidate
\* counts, and the index of the draw (NoDraw: a fixed count)
NoDraw == -1
CoreTiers ==
    << [subs |-> {"i9", "ryzen 9", "threadripper"}, counts |-> <<16, 20, 24, 32>>, index |-> 10],
       [subs |-> {"i7", "ryzen 7"},                 counts |-> <<8, 12, 16>>,      index |-> 11],
       [subs |-> {"i5", "ryzen 5"},                 counts |-> <<6, 8, 12>>,       index |-> 12],
       [subs |-> {"i3", "ryzen 3"},                 counts |-> <<4, 6>>,           index |-> 13],
       [subs |-> {"m1", "m2", "m3"},                counts |-> <<8>>,              index |-> NoDraw],
       [subs |-> {"celeron", "pentium"},            counts |-> <<2, 4>>,           index |-> 14] >>
DefaultCoreCount == 4

\* the branch of getCoreCount taken for a CPU string: 0 for the final default
CoreTierOf(cpu) ==
    LET cpuLower == toLowerCase(cpu)
        Matches(k) == \E sub \in CoreTiers[k].subs : Includes(cpuLower, sub)
    IN  IF \E k \in 1..Len(CoreTiers) : Matches(k)
        THEN CHOOSE k \in 1..Len(CoreTiers) : Matches(k) /\ \A j \in 1..(k - 1) : ~Matches(j)
        ELSE 0

\* getCoreCount(cpu)
getCoreCount(seed, cpu) ==
    IF ~Truthy(cpu) THEN Num(DefaultCoreCount)
    ELSE LET CountOf(tier) ==
                 IF tier = 0 THEN Num(DefaultCoreCount)
                 ELSE IF CoreTiers[tier].index = NoDraw THEN Num(CoreTiers[tier].counts[1])
                 ELSE randomChoice(seed, NumArray(CoreTiers[tier].counts), CoreTiers[tier].index)
         IN  CountOf(CoreTierOf(cpu.s))

\* parseGPU(gpuModel), for a string gpuModel
GpuVendors == <<"NVIDIA", "AMD", "Intel", "Apple">>
parseGPU(gpuModel) ==
    [defined |-> TRUE,
     vendor  |-> IF \E k \in 1..Len(GpuVendors) : Includes(gpuModel.s, GpuVendors[k])
                 THEN Str(GpuVendors[CHOOSE k \in 1..Len(GpuVendors) :
                              /\ Includes(gpuModel.s, GpuVendors[k])
                              /\ \A j \in 1..(k - 1) : ~Includes(gpuModel.s, GpuVendors[j])])
                 ELSE Str("Intel"),
     model   |-> gpuModel]
NoGpu == [defined |-> FALSE, vendor |-> JsUndefined, model |-> JsUndefined]

\* selectHardware(archetype); a property that is not set is undefined
selectHardware(seed, archetype) ==
    LET cpu == IF Has(archetype, "cpu")
               THEN randomWeightedChoice(seed, Keys(archetype.cpu), Values(archetype.cpu), DrawIndex.cpu)
               ELSE JsUndefined
        ramOptions == [i \in 1..Len(Table(archetype, "ram")) |-> ToNumber(archetype.ram[i][1])]
    IN  [cpu |-> cpu,
         hardwareConcurrency |-> IF Has(archetype, "cpu") THEN getCoreCount(seed, cpu) ELSE JsUndefined,
         deviceMemory |-> IF Has(archetype, "ram")
                          THEN randomWeightedChoice(seed, ramOptions, Values(archetype.ram), DrawIndex.ram)
                          ELSE JsUndefined,
         gpu |-> IF Has(archetype, "gpu")
                 THEN parseGPU(randomWeightedChoice(seed, Keys(archetype.gpu), Values(archetype.gpu), DrawIndex.gpu))
                 ELSE NoGpu]

\* selectDisplay(archetype)
DefaultResolutions == <<"1920x1080">>
selectDisplay(seed, archetype) ==
    [resolution     |-> randomChoice(seed,
                            StrArray(IF Has(archetype, "resolutions") THEN archetype.resolutions
                                     ELSE DefaultResolutions),
                            DrawIndex.resolution),
     colorDepth     |-> Or(NumField(archetype, "colorDepth"), Num(24)),
     pixelDepth     |-> Or(NumField(archetype, "pixelDepth"), Num(24)),
     maxTouchPoints |-> Or(NumField(archetype, "maxTouchPoints"), Num(0))]

\* selectLocale(archetype)
DefaultLanguages == <<"en-US">>
selectLocale(archetype) ==
    LET languages == StrArray(IF Has(archetype, "languages") THEN archetype.languages
                              ELSE DefaultLanguages)
    IN  [language |-> ElementAt(languages, 0), languages |-> languages]

\* buildUserAgent(archetype)
ChromeVersions == <<"120.0.6099.130", "121.0.6167.85", "122.0.6261.69", "123.0.6312.86">>
buildUserAgent(seed, archetype) ==
    LET userAgent     == Or(StrField(archetype, "userAgent"), Str(HostUserAgent))
        chromeVersion == randomChoice(seed, StrArray(ChromeVersions), DrawIndex.chromeVersion)
    IN  Str(Replace(userAgent.s, "{CHROME_VERSION}", JsStr(chromeVersion)))

\* getVendor(osName)
getVendor(osName) ==
    IF OptIncludes(osName, "macOS") THEN Str("Apple Computer, Inc.") ELSE Str("Google Inc.")

\* buildNavigatorProfile(profile)
WindowsPlugins == <<"Chrome PDF Plugin", "Chrome PDF Viewer", "Native Client">>
buildNavigatorProfile(profile) ==
    [userAgent           |-> profile.userAgent,
     platform            |-> profile.os.platform,
     language            |-> profile.locale.language,
     languages           |-> profile.locale.languages,
     hardwareConcurrency |-> Or(profile.hardware.hardwareConcurrency, Num(4)),
     deviceMemory        |-> Or(profile.hardware.deviceMemory, Num(8)),
     maxTouchPoints      |-> Or(profile.display.maxTouchPoints, Num(0)),
     vendor              |-> getVendor(profile.os.name),
     appVersion          |-> Str(Replace(profile.userAgent.s, "Mozilla/", "")),
     plugins             |-> IF OptIncludes(profile.os.name, "Windows") THEN WindowsPlugins ELSE <<>>,
     mimeTypes           |-> <<>>]

\* buildWebGLProfile(profile)
buildWebGLProfile(profile) ==
    LET gpu == profile.hardware.gpu
        os  == profile.os
        d3d == ", " \o JsStr(gpu.model) \o " Direct3D11 vs_5_0 ps_5_0, D3D11)"
    IN  [vendor   |-> IF ~OptIncludes(os.name, "Windows") /\ OptIncludes(os.name, "macOS")
                      THEN "Apple Inc." ELSE "Google Inc.",
         renderer |-> IF OptIncludes(os.name, "Windows")
                      THEN IF gpu.vendor = Str("NVIDIA") THEN "ANGLE (NVIDIA" \o d3d
                           ELSE IF gpu.vendor = Str("AMD") THEN "ANGLE (AMD" \o d3d
                           ELSE "ANGLE (Intel" \o d3d
                      ELSE IF OptIncludes(os.name, "macOS")
                      THEN "ANGLE (Apple, ANGLE Metal Renderer: " \o JsStr(gpu.model) \o ", Unspecified Version)"
                      ELSE "Mesa " \o JsStr(gpu.model),
         version  |-> "WebGL 1.0",
         shadingLanguageVersion |-> "WebGL GLSL ES 1.0"]

\* buildAudioProfile(profile) with draws whose index advances with every
\* Profile built
buildAudioProfile_counted(seed) ==
    [sampleRate      |-> randomChoice(seed, <<Num(44100), Num(48000)>>,
                                      (DrawIndex.sampleRate + Cardinality(built)) % (MaxDrawIndex + 1)),
     maxChannelCount |-> randomChoice(seed, <<Num(2), Num(6)>>,
                                      (DrawIndex.maxChannelCount + Cardinality(built)) % (MaxDrawIndex + 1)),
     state           |-> "running"]

\* buildAudioProfile(profile)
buildAudioProfile(seed) ==
    [sampleRate      |-> randomChoice(seed, <<Num(44100), Num(48000)>>, DrawIndex.sampleRate),
     maxChannelCount |-> randomChoice(seed, <<Num(2), Num(6)>>, DrawIndex.maxChannelCount),
     state           |-> "running"]

\* the test of buildBatteryProfile, inverted
hasBattery_inverted(archetypeName) ==
    ~(\/ Includes(archetypeName, "Laptop")
      \/ Includes(archetypeName, "Tablet")
      \/ Includes(archetypeName, "2-in-1"))

\* the test of buildBatteryProfile on the archetype name
hasBattery(archetypeName) ==
    \/ Includes(archetypeName, "Laptop")
    \/ Includes(archetypeName, "Tablet")
    \/ Includes(archetypeName, "2-in-1")

\* the least draw with num / 0xFFFFFFFF > 0.3: 1288490189 = 0x4CCCCCCD
ChargingThreshold == <<19660, 52429>>

\* a battery level: 1.0, or random(12) * 0.8 + 0.2 for the draw kept
FullLevel == [drawn |-> FALSE, draw |-> <<0, 0>>]
DrawnLevel(num) == [drawn |-> TRUE, draw |-> num]

\* buildBatteryProfile(profile), for a string profile.archetype
buildBatteryProfile(seed, profile) ==
    IF hasBattery(profile.archetype.s)
    THEN [charging        |-> ~Lt32(random(seed, DrawIndex.charging), ChargingThreshold),
          chargingTime    |-> Num(randomInt(seed, 0, 7200, DrawIndex.chargingTime)),
          dischargingTime |-> Num(randomInt(seed, 3600, 28800, DrawIndex.dischargingTime)),
          level           |-> DrawnLevel(random(seed, DrawIndex.level))]
    ELSE [charging        |-> TRUE,
          chargingTime    |-> Num(0),
          dischargingTime |-> JsInfinity,
          level           |-> FullLevel]

\* the catalog this.profiles: null until loaded, undefined when the loaded
\* document has no deviceArchetypes, else an array of archetypes
NoProfiles        == [kind |-> "null", list |-> <<>>]
UndefinedProfiles == [kind |-> "undefined", list |-> <<>>]
ProfileArray(list) == [kind |-> "array", list |-> list]

\* the TypeErrors of generateProfile() after its getSeed(): map of a
\* null / undefined catalog, name of a null archetype (empty catalog),
\* includes of a null GPU model (empty gpu table) or of an undefined
\* profile.archetype (archetype without name)
GenerateThrows(seed, profs) ==
    \/ profs.kind # "array"
    \/ Len(profs.list) = 0
    \/ LET Throws(archetype) == \/ (Has(archetype, "gpu") /\ Len(archetype.gpu) = 0)
                                 \/ ~Has(archetype, "name")
       IN  Throws(selectArchetype(seed, profs.list))

\* generateProfile(), when it does not throw
generateProfile(seed, profs) ==
    LET Derived(profile) ==
            [seed      |-> profile.seed,
             archetype |-> profile.archetype,
             os        |-> profile.os,
             hardware  |-> profile.hardware,
             display   |-> profile.display,
             locale    |-> profile.locale,
             fonts     |-> profile.fonts,
             userAgent |-> profile.userAgent,
             navigator |-> buildNavigatorProfile(profile),
             webgl     |-> buildWebGLProfile(profile),
             audio     |-> buildAudioProfile(seed),
             battery   |-> buildBatteryProfile(seed, profile)]
        Base(archetype) ==
            [seed      |-> seed,
             archetype |-> StrField(archetype, "name"),
             os        |-> selectOS(seed, archetype),
             hardware  |-> selectHardware(seed, archetype),
             display   |-> selectDisplay(seed, archetype),
             locale    |-> selectLocale(archetype),
             fonts     |-> Table(archetype, "fonts"),
             userAgent |-> buildUserAgent(seed, archetype)]
    IN  Derived(Base(selectArchetype(seed, profs.list)))

\* the draws one run of generateProfile() makes, each with the attribute it
\* decides and the index it passes
DrawsUsed(seed, profs) ==
    IF profs.kind # "array" \/ Len(profs.list) = 0 THEN {}
    ELSE LET TierOf(hardware) == IF Truthy(hardware.cpu) THEN CoreTierOf(hardware.cpu.s) ELSE 0
             Draws(archetype, tier) ==
                 {[purpose |-> "archetype", index |-> DrawIndex.archetype],
                  [purpose |-> "chromeVersion", index |-> DrawIndex.chromeVersion],
                  [purpose |-> "sampleRate", index |-> DrawIndex.sampleRate],
                  [purpose |-> "maxChannelCount", index |-> DrawIndex.maxChannelCount]}
                 \cup {[purpose |-> f, index |-> DrawIndex[f]] :
                           f \in {g \in {"os", "cpu", "ram", "gpu"} : Len(Table(archetype, g)) > 0}}
                 \cup (IF Has(archetype, "resolutions") /\ Len(archetype.resolutions) = 0 THEN {}
                       ELSE {[purpose |-> "resolution", index |-> DrawIndex.resolution]})
                 \cup (IF tier # 0 /\ CoreTiers[tier].index # NoDraw
                       THEN {[purpose |-> "coreCount", index |-> CoreTiers[tier].index]} ELSE {})
                 \cup (IF Has(archetype, "name") /\ hasBattery(archetype.name)
                          /\ ~(Has(archetype, "gpu") /\ Len(archetype.gpu) = 0)
                       THEN {[purpose |-> f, index |-> DrawIndex[f]] :
                                 f \in {"charging", "chargingTime", "dischargingTime", "level"}}
                       ELSE {})
             DrawsOf(archetype) == Draws(archetype, TierOf(selectHardware(seed, archetype)))
         IN  DrawsOf(selectArchetype(seed, profs.list))

(***************************************************************************)
(* SeedManager: the seed of the current domain.  A SeedManager state is    *)
(* sm = [currentSeed, domainSeeds]; domainSeeds is the Map as the sequence *)
(* of its <<domain, seed>> entries in insertion order.                     *)
(***************************************************************************)
MAX_DOMAIN_SEEDS == 100

\* getCurrentDomain(): window.location.hostname || 'localhost'
getCurrentDomain(host) == IF host # "" THEN host ELSE "localhost"

MapHas(map, key) == \E i \in 1..Len(map) : map[i][1] = key
MapGet(map, key) == IF MapHas(map, key)
                    THEN map[CHOOSE i \in 1..Len(map) : map[i][1] = key][2]
                    ELSE JsUndefined
MapSet(map, key, value) ==
    IF MapHas(map, key)
    THEN [i \in 1..Len(map) |-> IF map[i][1] = key THEN <<key, value>> ELSE map[i]]
    ELSE Append(map, <<key, value>>)
MapDelete(map, key) == SelectSeq(map, LAMBDA e : e[1] # key)

\* storeSeedInMemory() removing the newest entry on overflow
storeSeedInMemory_newest(sm, host) ==
    LET stored == MapSet(sm.domainSeeds, getCurrentDomain(host), sm.currentSeed)
    IN  [sm EXCEPT !.domainSeeds = IF Len(stored) > MAX_DOMAIN_SEEDS
                                   THEN MapDelete(stored, stored[Len(stored)][1])
                                   ELSE stored]

\* storeSeedInMemory()
storeSeedInMemory(sm, host) ==
    LET stored == MapSet(sm.domainSeeds, getCurrentDomain(host), sm.currentSeed)
    IN  [sm EXCEPT !.domainSeeds = IF Len(stored) > MAX_DOMAIN_SEEDS
                                   THEN MapDelete(stored, stored[1][1])
                                   ELSE stored]

\* generateSeed() without its call of storeSeedInMemory()
generateSeed_unstored(sm, host, fresh) == [sm EXCEPT !.currentSeed = Str(fresh)]

\* generateSeed(): fresh is the 64 hex digits the random source yields
generateSeed(sm, host, fresh) == storeSeedInMemory([sm EXCEPT !.currentSeed = Str(fresh)], host)

\* getSeed() issuing a seed at every call
getSeed_renewing(sm, host, fresh) == generateSeed(sm, host, fresh)

\* getSeed(): the state it leaves; the seed returned is its currentSeed
getSeed(sm, host, fresh) ==
    IF Truthy(sm.currentSeed) THEN sm
    ELSE LET retrieved == [sm EXCEPT !.currentSeed = MapGet(sm.domainSeeds, getCurrentDomain(host))]
         IN  IF ~Truthy(retrieved.currentSeed) THEN generateSeed(retrieved, host, fresh)
             ELSE retrieved

\* clearSeed()
clearSeed(sm, host) ==
    [currentSeed |-> JsNull, domainSeeds |-> MapDelete(sm.domainSeeds, getCurrentDomain(host))]

(***************************************************************************)
(* Inputs of the model.                                                    *)
(***************************************************************************)
Hostnames == {"", "site.example"}

UserAgentTemplate == "Mozilla/5.0 (Windows NT 10.0; Win64; x64) AppleWebKit/537.36 (KHTML, like Gecko) Chrome/{CHROME_VERSION} Safari/537.36"

\* a catalog with a laptop and a desktop archetype
FullCatalog ==
    << [has |-> AllFields,
        name |-> "Gaming Laptop",
        weight |-> 2,
        platform |-> "Win32",
        os |-> << <<"Windows 11", 70>>, <<"Windows 10", 30>> >>,
        cpu |-> << <<"Intel Core i7-12700H", 60>>, <<"AMD Ryzen 9 5900HX", 40>> >>,
        ram |-> << <<"16", 50>>, <<"32", 50>> >>,
        gpu |-> << <<"NVIDIA GeForce RTX 3060", 100>> >>,
        resolutions |-> <<"1920x1080", "2560x1440">>,
        colorDepth |-> 24,
        pixelDepth |-> 24,
        maxTouchPoints |-> 0,
        languages |-> <<"en-US", "en">>,
        fonts |-> <<"Arial", "Segoe UI">>,
        userAgent |-> UserAgentTemplate],
       [has |-> AllFields,
        name |-> "Developer Desktop",
        weight |-> 3,
        platform |-> "Linux x86_64",
        os |-> << <<"Ubuntu Linux", 50>>, <<"Windows 10 Pro", 30>>, <<"macOS Sonoma", 20>> >>,
        cpu |-> << <<"AMD Ryzen 5 5600X", 50>>, <<"Intel Core i3-10100", 50>> >>,
        ram |-> << <<"8", 40>>, <<"16", 60>> >>,
        gpu |-> << <<"AMD Radeon RX 6600", 50>>, <<"Intel UHD Graphics 630", 50>> >>,
        resolutions |-> <<"1920x1080", "3840x2160">>,
        colorDepth |-> 24,
        pixelDepth |-> 24,
        maxTouchPoints |-> 0,
        languages |-> <<"en-GB", "en">>,
        fonts |-> <<"DejaVu Sans", "Liberation Sans">>,
        userAgent |-> UserAgentTemplate] >>

\* a catalog with a Linux archetype whose GPU is of Intel or NVIDIA
LinuxCatalog ==
    << [has |-> AllFields,
        name |-> "Linux Workstation",
        weight |-> 1,
        platform |-> "Linux x86_64",
        os |-> << <<"Ubuntu Linux", 100>> >>,
        cpu |-> << <<"AMD Ryzen 5 5600X", 100>> >>,
        ram |-> << <<"16", 100>> >>,
        gpu |-> << <<"Intel UHD Graphics 630", 50>>, <<"NVIDIA GeForce GTX 1650", 50>> >>,
        resolutions |-> <<"1920x1080">>,
        colorDepth |-> 24,
        pixelDepth |-> 24,
        maxTouchPoints |-> 0,
        languages |-> <<"en-US", "en">>,
        fonts |-> <<"DejaVu Sans", "Liberation Sans">>,
        userAgent |-> UserAgentTemplate] >>

\* a catalog whose only archetype has a name, a weight and a platform only
SparseCatalog ==
    << [has |-> {"name", "weight", "platform"},
        name |-> "Bare Desktop",
        weight |-> 1,
        platform |-> "Win32"] >>

\* what fetching and parsing profiles.json gives: it fails (ok = FALSE), or
\* the document's deviceArchetypes
CatalogFiles ==
    { [ok |-> FALSE, deviceArchetypes |-> UndefinedProfiles],
      [ok |-> TRUE,  deviceArchetypes |-> UndefinedProfiles],
      [ok |-> TRUE,  deviceArchetypes |-> ProfileArray(<<>>)],
      [ok |-> TRUE,  deviceArchetypes |-> ProfileArray(FullCatalog)],
      [ok |-> TRUE,  deviceArchetypes |-> ProfileArray(LinuxCatalog)],
      [ok |-> TRUE,  deviceArchetypes |-> ProfileArray(SparseCatalog)] }

SM == [currentSeed |-> currentSeed, domainSeeds |-> domainSeeds]

\* no helper call and no applyEdgeNoise call made yet
NoFieldCall == [op |-> "none"]
NoImageData == [width |-> 0, height |-> 0, data |-> <<>>]
NoNoiseCall == [done |-> FALSE]

\* a call and its outcome; again: the same draw (seed and index), or a
\* synthesis from the same seed and catalog, has been made before;
\* issued: the seed the random source yielded if the call issued one, else ""
Call(op, threw) ==
    [op |-> op, threw |-> threw, index |-> -1, draw |-> NoDrawYet, again |-> FALSE, issued |-> ""]
NoSeen == [seed \in SeedPool |-> [i \in RandomIndices |-> NoDrawYet]]

\* the SpoofingEngine and the SeedManager as constructed, on a page of hosts
EngineInit(hosts) ==
    /\ catalogFile \in CatalogFiles
    /\ hostname \in hosts
    /\ profiles = NoProfiles
    /\ currentProfile = JsNull
    /\ seedManager = FALSE
    /\ initPc = "idle"
    /\ currentSeed = JsNull
    /\ domainSeeds = <<>>
    /\ lastCall = Call("none", FALSE)
    /\ seen = NoSeen
    /\ built = {}
    /\ lastDraws = {}
    /\ heldProfile = JsNull

\* Date.now() when the page starts, in ms, and the step of the clock
StartTime == 1000
TickMs == 50

\* the properties of the navigator that the model follows, and the
\* descriptors the browser gives them: getters of Navigator.prototype
NavigatorProperties == {"userAgent", "platform", "hardwareConcurrency"}
NavigatorDescriptors ==
    [prop \in NavigatorProperties |->
        [get |-> TRUE, spoofed |-> FALSE,
         value |-> CASE prop = "userAgent" -> Str(HostUserAgent)
                     [] prop = "platform" -> Str("Linux x86_64")
                     [] OTHER -> Num(8)]]

\* the other scripts as constructed
PageInit ==
    /\ webgl = [profile |-> JsNull, parameterMap |-> JsNull]
    /\ raster = [bitmap |-> NoImageData, urls |-> {}, urlCalls |-> 0,
                 pixels |-> {}, pixelCalls |-> 0]
    /\ meta = [initialized |-> FALSE, interceptedFunctions |-> {}, last |-> [done |-> FALSE]]
    /\ nav = [descriptors |-> NavigatorDescriptors, originals |-> <<>>, restored |-> FALSE,
              read |-> [done |-> FALSE]]
    /\ limiter = [now |-> StartTime, minInterval |-> 0, lastCallTime |-> 0,
                  waiting |-> <<>>, issued |-> 0, resolved |-> <<>>]
    /\ worker = [now |-> StartTime,
                 local |-> [autoRotate |-> FALSE, rotateInterval |-> 3600000, lastRotation |-> 0],
                 session |-> {}, open |-> {}, closed |-> {}, handlers |-> {},
                 cleanup |-> [pc |-> "idle", active |-> {}, keys |-> {}],
                 navigations |-> 0, rotations |-> <<>>, late |-> {}]
    /\ content = [page |-> "loading", isInitialized |-> FALSE, profileData |-> FALSE,
                  poll |-> "none", messages |-> 0, dispatched |-> 0, pending |-> 0,
                  last |-> [done |-> FALSE]]

\* no helper and no CanvasInterceptor call made
SideInit ==
    /\ fieldCall = NoFieldCall
    /\ noiseSeed = JsNull
    /\ imageData = NoImageData
    /\ noiseCall = NoNoiseCall
    /\ PageInit

Init == EngineInit(Hostnames) /\ SideInit

\* getSeed() in SeedManager state sm ends in generateSeed()
SeedIssued(sm, host) ==
    /\ ~Truthy(sm.currentSeed)
    /\ ~Truthy(MapGet(sm.domainSeeds, getCurrentDomain(host)))

\* loadProfiles() without the fallback of its catch block
loadProfiles_nofallback(file) == file.deviceArchetypes

\* loadProfiles()
loadProfiles(file) == IF file.ok THEN file.deviceArchetypes ELSE ProfileArray(getDefaultProfiles)

\* the catalogs loadProfiles() can leave in SpoofingEngine.profiles
LoadedCatalogs == {loadProfiles(file) : file \in CatalogFiles}

\* generateProfile() for the seeds and catalogs of the model, computed once:
\* it throws, or returns a Profile after the draws listed
ProfileMemo ==
    [seed \in SeedPool |-> [profs \in LoadedCatalogs |->
        IF GenerateThrows(seed, profs)
        THEN [threw |-> TRUE, profile |-> JsNull, draws |-> {}]
        ELSE [threw |-> FALSE, profile |-> generateProfile(seed, profs),
              draws |-> DrawsUsed(seed, profs)]]]

\* the body of generateProfile() run by op in SeedManager state sm (after the
\* caller's own seed operations) with catalog profs: getSeed(), then the
\* synthesis, which throws or gives the Profile that op stores and returns
RunGenerate(op, sm, profs, fresh) ==
    LET after  == getSeed(sm, hostname, fresh)
        seed   == after.currentSeed.s
        issued == IF op = "regenerateProfile" \/ SeedIssued(sm, hostname) THEN fresh ELSE ""
    IN  /\ currentSeed' = after.currentSeed
        /\ domainSeeds' = after.domainSeeds
        /\ IF ProfileMemo[seed][profs].threw
           THEN /\ lastCall' = [Call(op, TRUE) EXCEPT !.issued = issued]
                /\ UNCHANGED <<currentProfile, built, lastDraws, heldProfile>>
           ELSE \E profile \in {ProfileMemo[seed][profs].profile} :
                /\ currentProfile' = profile
                /\ heldProfile' = currentProfile
                /\ built' = built \cup {[seed |-> seed, profiles |-> profs, profile |-> profile]}
                /\ lastDraws' = ProfileMemo[seed][profs].draws
                /\ lastCall' = [Call(op, FALSE) EXCEPT
                                   !.issued = issued,
                                   !.again = \E b \in built : b.seed = seed /\ b.profiles = profs]

\* init() is called: loadProfiles() starts fetching
InitCall ==
    /\ initPc = "idle"
    /\ initPc' = "loading"
    /\ UNCHANGED <<catalogFile, hostname, profiles, currentProfile, seedManager,
                   currentSeed, domainSeeds, lastCall, seen, built, lastDraws, heldProfile>>
    /\ UNCHANGED sideVars

\* loadProfiles() settles and init() runs to its end
InitResume ==
    /\ initPc = "loading"
    /\ initPc' = "idle"
    /\ profiles' = loadProfiles(catalogFile)
    /\ seedManager' = TRUE
    /\ \E fresh \in SeedPool : RunGenerate("init", SM, loadProfiles(catalogFile), fresh)
    /\ UNCHANGED <<catalogFile, hostname, seen>>
    /\ UNCHANGED sideVars

\* getCurrentProfile()
GetCurrentProfile ==
    /\ IF currentProfile # JsNull
       THEN /\ lastCall' = Call("getCurrentProfile", FALSE)
            /\ UNCHANGED <<currentProfile, currentSeed, domainSeeds, built, lastDraws, heldProfile>>
       ELSE IF ~seedManager
       THEN /\ lastCall' = Call("getCurrentProfile", TRUE)
            /\ UNCHANGED <<currentProfile, currentSeed, domainSeeds, built, lastDraws, heldProfile>>
       ELSE \E fresh \in SeedPool : RunGenerate("getCurrentProfile", SM, profiles, fresh)
    /\ UNCHANGED <<catalogFile, hostname, profiles, seedManager, initPc, seen>>
    /\ UNCHANGED sideVars

\* regenerateProfile() without its call of generateProfile()
RegenerateProfile_stale ==
    /\ seedManager
    /\ \E fresh \in SeedPool :
           /\ currentSeed' = generateSeed(clearSeed(SM, hostname), hostname, fresh).currentSeed
           /\ domainSeeds' = generateSeed(clearSeed(SM, hostname), hostname, fresh).domainSeeds
           /\ lastCall' = [Call("regenerateProfile", FALSE) EXCEPT !.issued = fresh]
    /\ UNCHANGED <<catalogFile, hostname, profiles, currentProfile, seedManager, initPc,
                   seen, built, lastDraws, heldProfile>>
    /\ UNCHANGED sideVars

\* regenerateProfile(): clearSeed(), generateSeed(), generateProfile()
RegenerateProfile ==
    /\ IF ~seedManager
       THEN /\ lastCall' = Call("regenerateProfile", TRUE)
            /\ UNCHANGED <<currentProfile, currentSeed, domainSeeds, built, lastDraws, heldProfile>>
       ELSE \E fresh \in SeedPool :
                RunGenerate("regenerateProfile",
                            generateSeed(clearSeed(SM, hostname), hostname, fresh),
                            profiles, fresh)
    /\ UNCHANGED <<catalogFile, hostname, profiles, seedManager, initPc, seen>>
    /\ UNCHANGED sideVars

\* SeedManager.getSeed() called directly, the random source yielding fresh
GetSeedWith(fresh) ==
    /\ LET after == getSeed(SM, hostname, fresh)
       IN  /\ currentSeed' = after.currentSeed
           /\ domainSeeds' = after.domainSeeds
    /\ lastCall' = [Call("getSeed", FALSE) EXCEPT
                       !.issued = IF SeedIssued(SM, hostname) THEN fresh ELSE ""]
    /\ UNCHANGED <<catalogFile, hostname, profiles, currentProfile, seedManager, initPc,
                   seen, built, lastDraws, heldProfile>>
    /\ UNCHANGED sideVars

GetSeed == \E fresh \in SeedPool : GetSeedWith(fresh)

\* SeedManager.generateSeed() called directly, the random source yielding fresh
GenerateSeedWith(fresh) ==
    /\ LET after == generateSeed(SM, hostname, fresh)
       IN  /\ currentSeed' = after.currentSeed
           /\ domainSeeds' = after.domainSeeds
    /\ lastCall' = [Call("generateSeed", FALSE) EXCEPT !.issued = fresh]
    /\ UNCHANGED <<catalogFile, hostname, profiles, currentProfile, seedManager, initPc,
                   seen, built, lastDraws, heldProfile>>
    /\ UNCHANGED sideVars

GenerateSeed == \E fresh \in SeedPool : GenerateSeedWith(fresh)

\* SeedManager.clearSeed() called directly
ClearSeed ==
    /\ currentSeed' = clearSeed(SM, hostname).currentSeed
    /\ domainSeeds' = clearSeed(SM, hostname).domainSeeds
    /\ lastCall' = Call("clearSeed", FALSE)
    /\ UNCHANGED <<catalogFile, hostname, profiles, currentProfile, seedManager, initPc,
                   seen, built, lastDraws, heldProfile>>
    /\ UNCHANGED sideVars

\* SeedManager.random(index) called directly
Random ==
    /\ \E index \in RandomIndices, fresh \in SeedPool :
           LET after == getSeed(SM, hostname, fresh)
               seed  == after.currentSeed.s
               num   == random(seed, index)
           IN  /\ currentSeed' = after.currentSeed
               /\ domainSeeds' = after.domainSeeds
               /\ seen' = IF seen[seed][index] = NoDrawYet
                          THEN [seen EXCEPT ![seed][index] = num] ELSE seen
               /\ lastCall' = [Call("random", FALSE) EXCEPT
                                   !.index = index, !.draw = num,
                                   !.again = seen[seed][index] # NoDrawYet,
                                   !.issued = IF SeedIssued(SM, hostname) THEN fresh ELSE ""]
    /\ UNCHANGED <<catalogFile, hostname, profiles, currentProfile, seedManager, initPc,
                   built, lastDraws, heldProfile>>
    /\ UNCHANGED sideVars

\* the page's hostname changes to one of hosts
NavigateTo(hosts) ==
    /\ hostname' \in hosts \ {hostname}
    /\ UNCHANGED <<catalogFile, profiles, currentProfile, seedManager, initPc,
                   currentSeed, domainSeeds, lastCall, seen, built, lastDraws, heldProfile>>
    /\ UNCHANGED sideVars

Navigate == NavigateTo(Hostnames)

\* the SpoofingEngine with the SeedManager calls that do not draw
Next ==
    \/ InitCall
    \/ InitResume
    \/ GetCurrentProfile
    \/ RegenerateProfile
    \/ GetSeed
    \/ GenerateSeed
    \/ ClearSeed
    \/ Navigate

Spec == Init /\ [][Next]_vars

\* the SeedManager alone, with direct draws
FieldInit == Init /\ ~catalogFile.ok

FieldNext ==
    \/ GetSeed
    \/ GenerateSeed
    \/ ClearSeed
    \/ Random
    \/ Navigate

FieldSpec == FieldInit /\ [][FieldNext]_vars

\* the SpoofingEngine with getSeed() and direct draws, and no other seed
\* operation
CacheNext ==
    \/ InitCall
    \/ InitResume
    \/ GetCurrentProfile
    \/ RegenerateProfile
    \/ GetSeed
    \/ Random

CacheSpec == Init /\ [][CacheNext]_vars

\* the call record of a helper that draws: the seed getSeed() returned, the
\* draw of that seed and index (not made by a call that returns early), the
\* arguments and the value returned; none of the helpers has a throw
\* statement
FieldCall(op, seed, index, min, max, items, weights, result) ==
    [op |-> op, seed |-> seed, index |-> index, draw |-> random(seed, index),
     min |-> min, max |-> max, items |-> items, weights |-> weights,
     result |-> result, threw |-> FALSE]

\* SeedManager.randomInt(min, max, index) called directly
RandomInt ==
    /\ \E min \in {0, 1, 3}, max \in {0, 1, 5}, index \in RandomIndices, fresh \in SeedPool :
           LET Returned(after) ==
                   /\ currentSeed' = after.currentSeed
                   /\ domainSeeds' = after.domainSeeds
                   /\ fieldCall' = FieldCall("randomInt", after.currentSeed.s, index, min, max,
                                             <<>>, <<>>,
                                             Num(randomInt(after.currentSeed.s, min, max, index)))
           IN  Returned(getSeed(SM, hostname, fresh))
    /\ UNCHANGED <<catalogFile, hostname, profiles, currentProfile, seedManager, initPc,
                   lastCall, seen, built, lastDraws, heldProfile>>
    /\ UNCHANGED <<noiseSeed, imageData, noiseCall, pageVars>>

\* SeedManager.randomChoice(array, index) called directly
RandomChoice ==
    /\ \E array \in {<<>>, StrArray(<<"a">>), StrArray(<<"a", "b", "c">>)},
          index \in RandomIndices, fresh \in SeedPool :
           LET Returned(after) ==
                   /\ currentSeed' = IF Len(array) = 0 THEN currentSeed ELSE after.currentSeed
                   /\ domainSeeds' = IF Len(array) = 0 THEN domainSeeds ELSE after.domainSeeds
                   /\ fieldCall' = FieldCall("randomChoice", after.currentSeed.s, index, 0, 0,
                                             array, <<>>,
                                             randomChoice(after.currentSeed.s, array, index))
           IN  Returned(getSeed(SM, hostname, fresh))
    /\ UNCHANGED <<catalogFile, hostname, profiles, currentProfile, seedManager, initPc,
                   lastCall, seen, built, lastDraws, heldProfile>>
    /\ UNCHANGED <<noiseSeed, imageData, noiseCall, pageVars>>

\* SeedManager.randomWeightedChoice(items, weights, index) called directly
RandomWeightedChoice ==
    /\ \E weighted \in {<< <<>>, <<>> >>,
                        << StrArray(<<"a", "b">>), <<3, 1>> >>,
                        << StrArray(<<"a", "b", "c">>), <<1, 2, 1>> >>,
                        << StrArray(<<"a", "b", "c">>), <<5, 3, 2>> >>},
          index \in RandomIndices, fresh \in SeedPool :
           LET Returned(after) ==
                   /\ currentSeed' = IF Len(weighted[1]) = 0 THEN currentSeed
                                     ELSE after.currentSeed
                   /\ domainSeeds' = IF Len(weighted[1]) = 0 THEN domainSeeds
                                     ELSE after.domainSeeds
                   /\ fieldCall' = FieldCall("randomWeightedChoice", after.currentSeed.s, index,
                                             0, 0, weighted[1], weighted[2],
                                             randomWeightedChoice(after.currentSeed.s,
                                                                  weighted[1], weighted[2], index))
           IN  Returned(getSeed(SM, hostname, fresh))
    /\ UNCHANGED <<catalogFile, hostname, profiles, currentProfile, seedManager, initPc,
                   lastCall, seen, built, lastDraws, heldProfile>>
    /\ UNCHANGED <<noiseSeed, imageData, noiseCall, pageVars>>

\* the SeedManager with the helpers that draw
ChoiceNext ==
    \/ GenerateSeed
    \/ ClearSeed
    \/ RandomInt
    \/ RandomChoice
    \/ RandomWeightedChoice

ChoiceSpec == FieldInit /\ [][ChoiceNext]_vars

(***************************************************************************)
(* The SeedManager over a row of domains: each domain is left for the next *)
(* one once it has its seed in the map.                                    *)
(***************************************************************************)
MaxDomains == 103

DomainName(i) == "site" \o ToString(i) \o ".example"
DomainIndex(host) == CHOOSE i \in 1..MaxDomains : DomainName(i) = host

\* the seed the random source yields on the page of host
SeedOfDomain(host) == IF DomainIndex(host) % 2 = 1 THEN SeedOne ELSE SeedTwo

MapInit == EngineInit({DomainName(1)}) /\ ~catalogFile.ok /\ SideInit

MapGetSeed == GetSeedWith(SeedOfDomain(hostname))

MapGenerateSeed == GenerateSeedWith(SeedOfDomain(hostname))

MapNavigate ==
    /\ DomainIndex(hostname) < MaxDomains
    /\ MapHas(domainSeeds, getCurrentDomain(hostname))
    /\ NavigateTo({DomainName(DomainIndex(hostname) + 1)})

MapNext ==
    \/ MapGetSeed
    \/ MapGenerateSeed
    \/ ClearSeed
    \/ MapNavigate

MapSpec == MapInit /\ [][MapNext]_vars

(***************************************************************************)
(* CanvasInterceptor (src/interceptors/screeninterceptor.js): noise on the *)
(* edge pixels of an ImageData object [width, height, data], data being    *)
(* the sequence of its bytes.  Gray values are kept in thousandths and     *)
(* noisy channel values in millionths, so that the arithmetic is exact.    *)
(***************************************************************************)
\* hash = ((hash << 5) - hash) + char; hash = hash & hash: 31 * hash + char,
\* kept modulo 2^32
HashStep(h, c) ==
    LET low == (31 * h[2]) + c
    IN  << ((31 * h[1]) + (low \div W16)) % W16, low % W16 >>

RECURSIVE HashFrom(_, _, _)
HashFrom(h, str, i) ==
    IF i > Len(str) THEN h
    ELSE LET next == HashStep(h, charCodeAt(str, i))
         IN  IF IsUint32(next) THEN HashFrom(next, str, i + 1) ELSE next

\* Math.abs of the signed 32-bit value with these bits
AbsInt32(h) ==
    IF h[1] < W16 \div 2 THEN h
    ELSE << W16 - h[1] - (IF h[2] = 0 THEN 0 ELSE 1), (W16 - h[2]) % W16 >>

\* hashCode(str)
hashCode(str) == AbsInt32(HashFrom(<<0, 0>>, str, 1))

\* hash % 1000
Mod1000(h) == (((h[1] % 1000) * (W16 % 1000)) + h[2]) % 1000

\* seededRandom(x, y, channel), in thousandths
seededRandom(seed, x, y, channel) ==
    Mod1000(hashCode(seed \o "-" \o ToString(x) \o "-" \o ToString(y) \o "-" \o ToString(channel)))

\* data[i] for a 0-based i
HasByte(data, i) == i + 1 \in DOMAIN data

\* data[idx] * 0.299 + data[idx + 1] * 0.587 + data[idx + 2] * 0.114 in
\* thousandths; NaN when a byte read is undefined
Gray(data, idx) ==
    IF HasByte(data, idx) /\ HasByte(data, idx + 1) /\ HasByte(data, idx + 2)
    THEN [nan |-> FALSE,
          v   |-> (299 * data[idx + 1]) + (587 * data[idx + 2]) + (114 * data[idx + 3])]
    ELSE [nan |-> TRUE, v |-> 0]

sobelX == <<-1, 0, 1, -2, 0, 2, -1, 0, 1>>
sobelY == <<-1, -2, -1, 0, 0, 0, 1, 2, 1>>

\* the gray value under kernel entry kernelIdx = (ky + 1) * 3 + (kx + 1) around
\* pixel (x, y)
KernelGray(img, x, y, kernelIdx) ==
    Gray(img.data, (((y + (kernelIdx \div 3) - 1) * img.width) + (x + (kernelIdx % 3) - 1)) * 4)

\* pixelX (kernel sobelX) or pixelY (kernel sobelY) summed from entry kernelIdx on
RECURSIVE KernelSum(_, _, _, _, _)
KernelSum(img, x, y, kernel, kernelIdx) ==
    IF kernelIdx > 8 THEN 0
    ELSE (KernelGray(img, x, y, kernelIdx).v * kernel[kernelIdx + 1])
         + KernelSum(img, x, y, kernel, kernelIdx + 1)

Abs(n) == IF n < 0 THEN -n ELSE n

\* Math.sqrt(pixelX * pixelX + pixelY * pixelY) > 30, for pixelX and pixelY
\* in thousandths
EdgeThreshold == 30
MagnitudeExceeds(pixelX, pixelY) ==
    \/ Abs(pixelX) > EdgeThreshold * 1000
    \/ Abs(pixelY) > EdgeThreshold * 1000
    \/ (pixelX * pixelX) + (pixelY * pixelY) > (EdgeThreshold * 1000) * (EdgeThreshold * 1000)

\* the value detectEdges() stores for pixel (x, y): the loops visit the
\* interior pixels only, and a NaN magnitude compares false
EdgeAt(img, x, y) ==
    /\ x >= 1 /\ x < img.width - 1
    /\ y >= 1 /\ y < img.height - 1
    /\ \A kernelIdx \in 0..8 : ~KernelGray(img, x, y, kernelIdx).nan
    /\ MagnitudeExceeds(KernelSum(img, x, y, sobelX, 0), KernelSum(img, x, y, sobelY, 0))

\* detectEdges(imageData): one entry per pixel, row by row
detectEdges(img) ==
    [k \in 1..(img.width * img.height) |->
        IF EdgeAt(img, (k - 1) % img.width, (k - 1) \div img.width) THEN 1 ELSE 0]

\* noiseLevel, in thousandths
noiseLevel == 2

\* storing Math.max(0, Math.min(255, value)) in a Uint8ClampedArray, for a
\* value in millionths: round to nearest, ties to even
ClampedByte(millionths) ==
    LET clamped == IF millionths < 0 THEN 0
                   ELSE IF millionths > 255 * 1000000 THEN 255 * 1000000 ELSE millionths
        whole   == clamped \div 1000000
        rest    == clamped % 1000000
    IN  IF rest * 2 > 1000000 \/ (rest * 2 = 1000000 /\ whole % 2 = 1) THEN whole + 1 ELSE whole

\* the buffers of the model are ImageSide pixels wide and high, with up to
\* MaxExtraPixels pixels too few or too many in data
ImageSide == 3
MaxExtraPixels == 1

\* the seededRandom values of the seeds and pixels of the model, computed once
NoiseMemo ==
    [seed \in SeedPool |-> [x \in 0..(ImageSide - 1) |-> [y \in 0..(ImageSide - 1) |->
        [channel \in 0..2 |-> seededRandom(seed, x, y, channel)]]]]

\* the noise of NoisyByte() a hundred times as large
NoisyByte_coarse(seed, byte, x, y, channel) ==
    ClampedByte((byte * 1000000) + ((NoiseMemo[seed][x][y][channel] - 500) * 255 * noiseLevel * 100))

\* data[pixelIdx + channel] + (seededRandom(x, y, channel) - 0.5) * 255 * noiseLevel,
\* as stored
NoisyByte(seed, byte, x, y, channel) ==
    ClampedByte((byte * 1000000) + ((NoiseMemo[seed][x][y][channel] - 500) * 255 * noiseLevel))

\* applyEdgeNoise() inverting every byte of the buffer
applyEdgeNoise_blanket(seed, img) == [i \in 1..Len(img.data) |-> 255 - img.data[i]]

\* applyEdgeNoise(imageData): the bytes it leaves in imageData.data
applyEdgeNoise(seed, img) ==
    LET Noisy(edges) ==
            [i \in 1..Len(img.data) |->
                LET idx == (i - 1) \div 4
                IN  IF /\ idx < img.width * img.height
                       /\ (i - 1) % 4 < 3
                       /\ edges[idx + 1] = 1
                    THEN NoisyByte(seed, img.data[i], idx % img.width, idx \div img.width,
                                   (i - 1) % 4)
                    ELSE img.data[i]]
    IN  Noisy(detectEdges(img))

\* pixels <<r, g, b, a>> of the buffers
DarkPixel  == <<20, 30, 40, 255>>
LightPixel == <<220, 200, 240, 200>>

RECURSIVE Flatten(_)
Flatten(pixels) == IF pixels = <<>> THEN <<>> ELSE Head(pixels) \o Flatten(Tail(pixels))

\* the bytes of the first n pixels, row by row, of the picture whose pixel
\* (x, y) is light where column x and row y are marked differently; pixels
\* past the last row are light
PictureData(cols, rows, n) ==
    Flatten([k \in 1..n |->
                IF (k - 1) \div ImageSide >= ImageSide THEN LightPixel
                ELSE IF cols[((k - 1) % ImageSide) + 1] # rows[((k - 1) \div ImageSide) + 1]
                     THEN LightPixel ELSE DarkPixel])

\* the ImageData objects passed to applyEdgeNoise
Images ==
    { [width |-> ImageSide, height |-> ImageSide, data |-> PictureData(cols, rows, n)] :
          cols \in [1..ImageSide -> BOOLEAN], rows \in [1..ImageSide -> BOOLEAN],
          n \in ((ImageSide * ImageSide) - MaxExtraPixels)..((ImageSide * ImageSide) + MaxExtraPixels) }

\* the buffer has the byte length its dimensions ask for
WellFormed(img) == Len(img.data) = img.width * img.height * 4

\* some pixel of the buffer qualifies for noise
HasEdge(img) ==
    \E x \in 0..(img.width - 1), y \in 0..(img.height - 1) : EdgeAt(img, x, y)

\* the variables of the SeedManager helpers and of the CanvasInterceptor
canvasVars == <<fieldCall, noiseSeed, imageData, noiseCall>>

engineVars == <<catalogFile, hostname, profiles, currentProfile, seedManager, initPc,
                currentSeed, domainSeeds, lastCall, seen, built, lastDraws, heldProfile>>

\* the page holds one of the buffers; CanvasInterceptor as constructed
NoiseInit ==
    /\ EngineInit({""})
    /\ ~catalogFile.ok
    /\ fieldCall = NoFieldCall
    /\ noiseSeed = JsNull
    /\ imageData \in Images
    /\ noiseCall = NoNoiseCall
    /\ PageInit

\* CanvasInterceptor.init(profile): this.seed = profile.seed || Math.random(),
\* one of the seeds of the pool
CanvasInit ==
    /\ \E seed \in SeedPool : noiseSeed' = Str(seed)
    /\ UNCHANGED <<fieldCall, imageData, noiseCall, pageVars>>
    /\ UNCHANGED engineVars

\* applyEdgeNoise(imageData), reached through the proxies init() installs:
\* it writes into imageData.data and returns imageData; it has no check of
\* the dimensions and reports nothing
ApplyEdgeNoise ==
    /\ noiseSeed # JsNull
    /\ imageData' = [imageData EXCEPT !.data = applyEdgeNoise(noiseSeed.s, imageData)]
    /\ noiseCall' = [done            |-> TRUE,
                     seed            |-> noiseSeed.s,
                     input           |-> imageData,
                     output          |-> imageData'.data,
                     returnsArgument |-> TRUE,
                     threw           |-> FALSE,
                     diagnostic      |-> FALSE]
    /\ UNCHANGED <<fieldCall, noiseSeed, pageVars>>
    /\ UNCHANGED engineVars

NoiseNext ==
    \/ CanvasInit
    \/ ApplyEdgeNoise

NoiseSpec == NoiseInit /\ [][NoiseNext]_vars

(***************************************************************************)
(* WebGLInterceptor: the VENDOR and RENDERER strings getParameter serves.  *)
(***************************************************************************)
\* buildParameterMap(profile): the entries 0x1F00 (VENDOR) and 0x1F01 (RENDERER)
buildParameterMap(profile) ==
    LET Entries(gpu, os) ==
            LET d3d(fallback) == ", " \o JsStr(Or(gpu.model, Str(fallback)))
                                     \o " Direct3D11 vs_5_0 ps_5_0, D3D11)"
            IN  [vendor   |-> IF ~OptIncludes(os.name, "Windows") /\ OptIncludes(os.name, "macOS")
                              THEN "Apple Inc." ELSE "Google Inc.",
                 renderer |->
                     IF OptIncludes(os.name, "Windows")
                     THEN IF gpu.vendor = Str("NVIDIA") THEN "ANGLE (NVIDIA" \o d3d("NVIDIA GeForce RTX 3060")
                          ELSE IF gpu.vendor = Str("AMD") THEN "ANGLE (AMD" \o d3d("AMD Radeon RX 6600")
                          ELSE "ANGLE (Intel" \o d3d("Intel(R) UHD Graphics 620")
                     ELSE IF OptIncludes(os.name, "macOS")
                     THEN "ANGLE (Apple, ANGLE Metal Renderer: "
                              \o JsStr(Or(gpu.model, Str("Apple M2"))) \o ", Unspecified Version)"
                     ELSE IF OptIncludes(os.name, "Linux")
                     THEN IF gpu.vendor = Str("Intel")
                          THEN "Mesa Intel(R) " \o JsStr(Or(gpu.model, Str("UHD Graphics 620")))
                          ELSE IF gpu.vendor = Str("NVIDIA")
                          THEN JsStr(Or(gpu.model, Str("NVIDIA GeForce GTX 1650")))
                          ELSE "Mesa " \o JsStr(Or(gpu.model, Str("AMD Radeon Graphics")))
                     ELSE "ANGLE ("]
    IN  Entries(profile.hardware.gpu, profile.os)

\* getParameter(parameter) of an intercepted context, for VENDOR and RENDERER
getParameter(parameterMap, parameter) ==
    IF parameter = "VENDOR" THEN parameterMap.vendor ELSE parameterMap.renderer

\* WebGLInterceptor.init(profile) with the Profile the engine holds, as the
\* page script calls it after SpoofingEngine.init() and regenerateProfile()
WebGLInit ==
    /\ currentProfile # JsNull
    /\ webgl' = [profile |-> currentProfile, parameterMap |-> buildParameterMap(currentProfile)]
    /\ UNCHANGED <<raster, meta, nav, limiter, worker, content>>
    /\ UNCHANGED engineVars
    /\ UNCHANGED canvasVars

\* the engine with the WebGL adapter
AdapterNext ==
    \/ InitCall
    \/ InitResume
    \/ RegenerateProfile
    \/ WebGLInit

AdapterSpec == Init /\ [][AdapterNext]_vars

(***************************************************************************)
(* CanvasInterceptor: the proxies of toDataURL and getImageData on a       *)
(* canvas with a 2d context.                                               *)
(***************************************************************************)
\* the calls counted: none, one, two or more
TwoOrMore(n) == IF n < 2 THEN n + 1 ELSE 2

\* a canvas of the page with something drawn on it, and no call made
RasterInit ==
    /\ EngineInit({""})
    /\ ~catalogFile.ok
    /\ fieldCall = NoFieldCall
    /\ noiseSeed = JsNull
    /\ imageData = NoImageData
    /\ noiseCall = NoNoiseCall
    /\ webgl = [profile |-> JsNull, parameterMap |-> JsNull]
    /\ meta = [initialized |-> FALSE, interceptedFunctions |-> {}, last |-> [done |-> FALSE]]
    /\ nav = [descriptors |-> NavigatorDescriptors, originals |-> <<>>, restored |-> FALSE,
              read |-> [done |-> FALSE]]
    /\ limiter = [now |-> StartTime, minInterval |-> 0, lastCallTime |-> 0,
                  waiting |-> <<>>, issued |-> 0, resolved |-> <<>>]
    /\ worker = [now |-> StartTime,
                 local |-> [autoRotate |-> FALSE, rotateInterval |-> 3600000, lastRotation |-> 0],
                 session |-> {}, open |-> {}, closed |-> {}, handlers |-> {},
                 cleanup |-> [pc |-> "idle", active |-> {}, keys |-> {}],
                 navigations |-> 0, rotations |-> <<>>, late |-> {}]
    /\ content = [page |-> "loading", isInitialized |-> FALSE, profileData |-> FALSE,
                  poll |-> "none", messages |-> 0, dispatched |-> 0, pending |-> 0,
                  last |-> [done |-> FALSE]]
    /\ \E img \in Images :
           /\ WellFormed(img)
           /\ raster = [bitmap |-> img, urls |-> {}, urlCalls |-> 0,
                        pixels |-> {}, pixelCalls |-> 0]

\* the page draws on the canvas
Draw ==
    /\ \E img \in Images :
           /\ WellFormed(img)
           /\ img # raster.bitmap
           /\ raster' = [bitmap |-> img, urls |-> {}, urlCalls |-> 0,
                         pixels |-> {}, pixelCalls |-> 0]
    /\ UNCHANGED <<canvasVars, webgl, meta, nav, limiter, worker, content>>
    /\ UNCHANGED engineVars

\* canvas.toDataURL() through the proxy: ctx.getImageData() is the proxied
\* one and applies the noise to the copy it returns, applyEdgeNoise() is
\* applied to that copy again, putImageData() writes it into the canvas, and
\* the original toDataURL encodes the canvas
ToDataURL ==
    /\ noiseSeed # JsNull
    /\ \E noisy \in {applyEdgeNoise(noiseSeed.s,
                         [raster.bitmap EXCEPT
                              !.data = applyEdgeNoise(noiseSeed.s, raster.bitmap)])} :
           raster' = [raster EXCEPT !.bitmap.data = noisy,
                                    !.urls = @ \cup {noisy},
                                    !.urlCalls = TwoOrMore(@)]
    /\ UNCHANGED <<canvasVars, webgl, meta, nav, limiter, worker, content>>
    /\ UNCHANGED engineVars

\* ctx.getImageData() through the proxy: the noise is applied to the copy of
\* the canvas' pixels that it returns
GetImageData ==
    /\ noiseSeed # JsNull
    /\ raster' = [raster EXCEPT !.pixels = @ \cup {applyEdgeNoise(noiseSeed.s, raster.bitmap)},
                                !.pixelCalls = TwoOrMore(@)]
    /\ UNCHANGED <<canvasVars, webgl, meta, nav, limiter, worker, content>>
    /\ UNCHANGED engineVars

RasterNext ==
    \/ Draw
    \/ CanvasInit
    \/ ToDataURL
    \/ GetImageData

RasterSpec == RasterInit /\ [][RasterNext]_vars

\* a page whose engine and canvas are not used: the other scripts as
\* constructed
ScriptsInit == EngineInit({""}) /\ ~catalogFile.ok /\ SideInit

(***************************************************************************)
(* MetaInterceptor.  A function object is a record: its name, the text the *)
(* original Function.prototype.toString gives for it, whether it is a      *)
(* Proxy, and the property of one of the prototypes searched by            *)
(* findPropertyDescriptor() that holds it ("" when none does).             *)
(***************************************************************************)
\* the functions of the page that are no Proxy
PlainFunctions ==
    { [name |-> "getBattery", source |-> "function getBattery() { return battery; }",
       proxy |-> FALSE, property |-> ""],
      [name |-> "measure", source |-> "function measure() { return spoofed; }",
       proxy |-> FALSE, property |-> ""],
      [name |-> "get", source |-> "function() { return value; }",
       proxy |-> FALSE, property |-> "hardwareConcurrency"] }

\* new Proxy(implementation, ...) with the name createNativeFunction() gives
\* it: the original toString of a callable Proxy is a native function's
ProxyOf(name, implementation) ==
    [name |-> name, source |-> "function () { [native code] }", proxy |-> TRUE,
     property |-> "", target |-> implementation]

\* nativeFunctions: has(name) and get(name), for the names of the model
nativeFunctions(name) ==
    CASE name = "hardwareConcurrency" -> Str("function get hardwareConcurrency() { [native code] }")
      [] name = "getBattery" -> Str("function getBattery() { [native code] }")
      [] OTHER -> JsUndefined

\* interceptedFunctions.has(func) as the toString proxy evaluates it: once
\* protectWeakSets() has run, WeakSet.prototype.has is the proxy that
\* returns false for thisArg === self.interceptedFunctions
interceptedFunctionsHas(m, func) ==
    IF m.initialized THEN FALSE ELSE func \in m.interceptedFunctions

\* the apply trap of the Function.prototype.toString proxy
toStringProxy(m, func) ==
    IF interceptedFunctionsHas(m, func)
    THEN IF nativeFunctions(func.name) # JsUndefined THEN nativeFunctions(func.name).s
         ELSE "function " \o func.name \o "() { [native code] }"
    ELSE IF func.property # "" /\ nativeFunctions(func.property) # JsUndefined
         THEN nativeFunctions(func.property).s
         ELSE func.source

\* MetaInterceptor.init(): interceptToString(), interceptProxy(), protectWeakSets()
MetaInit ==
    /\ ~meta.initialized
    /\ meta' = [meta EXCEPT !.initialized = TRUE]
    /\ UNCHANGED <<canvasVars, webgl, raster, nav, limiter, worker, content>>
    /\ UNCHANGED engineVars

\* markAsIntercepted(func)
MarkAsIntercepted ==
    /\ \E func \in PlainFunctions :
           meta' = [meta EXCEPT !.interceptedFunctions = @ \cup {func}]
    /\ UNCHANGED <<canvasVars, webgl, raster, nav, limiter, worker, content>>
    /\ UNCHANGED engineVars

\* createNativeFunction(name, implementation)
CreateNativeFunction ==
    /\ \E name \in {"getBattery", "measure"}, implementation \in PlainFunctions :
           /\ implementation.property = ""
           /\ meta' = [meta EXCEPT !.interceptedFunctions = @ \cup {ProxyOf(name, implementation)}]
    /\ UNCHANGED <<canvasVars, webgl, raster, nav, limiter, worker, content>>
    /\ UNCHANGED engineVars

\* Function.prototype.toString.call(func) by a script of the page: the
\* original before init(), the proxy after it
FunctionToString ==
    /\ \E func \in PlainFunctions \cup meta.interceptedFunctions :
           meta' = [meta EXCEPT !.last =
                        [done |-> TRUE, func |-> func,
                         registered |-> func \in meta.interceptedFunctions,
                         result |-> IF meta.initialized THEN toStringProxy(meta, func)
                                    ELSE func.source]]
    /\ UNCHANGED <<canvasVars, webgl, raster, nav, limiter, worker, content>>
    /\ UNCHANGED engineVars

MetaNext ==
    \/ MetaInit
    \/ MarkAsIntercepted
    \/ CreateNativeFunction
    \/ FunctionToString

MetaSpec == ScriptsInit /\ [][MetaNext]_vars

(***************************************************************************)
(* NavigatorInterceptor, for the properties NavigatorProperties.           *)
(***************************************************************************)
\* the Profiles passed to init(): profile.navigator and profile.os.name
NavigatorProfiles ==
    { [navigator |-> [userAgent |-> Str(UserAgentTemplate), platform |-> Str("Win32"),
                      hardwareConcurrency |-> Num(12)],
       os |-> [name |-> Str("Windows 11")]],
      [navigator |-> [userAgent |-> Str("Mozilla/5.0 (Macintosh)"), platform |-> Str("Win32"),
                      hardwareConcurrency |-> Num(4)],
       os |-> [name |-> Str("macOS Sonoma")]],
      [navigator |-> [userAgent |-> JsUndefined, platform |-> JsUndefined,
                      hardwareConcurrency |-> JsUndefined],
       os |-> [name |-> JsNull]] }

\* storeOriginals(): the descriptor each property has now is stored under
\* its name, over what was stored before
storeOriginals(n) ==
    [n EXCEPT !.originals = [prop \in NavigatorProperties |-> n.descriptors[prop]]]

\* applyProfile(profile) with applyOSSpecificTweaks(profile): spoofedValues
spoofedValues(n, profile) ==
    [prop \in NavigatorProperties |->
        IF prop = "platform" /\ profile.os.name \in {Str("Windows 11"), Str("Windows 10")}
        THEN Str("Win32")
        ELSE IF prop = "platform" /\ OptIncludes(profile.os.name, "macOS") THEN Str("MacIntel")
        ELSE IF prop = "platform" /\ OptIncludes(profile.os.name, "Linux") THEN Str("Linux x86_64")
        ELSE Or(profile.navigator[prop], n.descriptors[prop].value)]

\* interceptGetters(): a getter of Navigator.prototype for each value
interceptGetters(n, values) ==
    [n EXCEPT !.descriptors = [prop \in NavigatorProperties |->
                                  [get |-> TRUE, spoofed |-> TRUE, value |-> values[prop]]]]

\* restore(): every descriptor stored in originals is defined again
restore(n) ==
    [n EXCEPT !.descriptors = [prop \in NavigatorProperties |->
                                  IF prop \in DOMAIN n.originals THEN n.originals[prop]
                                  ELSE n.descriptors[prop]]]

\* NavigatorInterceptor.init(profile)
NavigatorInit ==
    /\ \E profile \in NavigatorProfiles :
           nav' = [interceptGetters(storeOriginals(nav), spoofedValues(storeOriginals(nav), profile))
                       EXCEPT !.restored = FALSE]
    /\ UNCHANGED <<canvasVars, webgl, raster, meta, limiter, worker, content>>
    /\ UNCHANGED engineVars

\* NavigatorInterceptor.restore()
NavigatorRestore ==
    /\ nav' = [restore(nav) EXCEPT !.restored = TRUE]
    /\ UNCHANGED <<canvasVars, webgl, raster, meta, limiter, worker, content>>
    /\ UNCHANGED engineVars

\* the page reads navigator[prop]
NavigatorRead ==
    /\ \E prop \in NavigatorProperties :
           nav' = [nav EXCEPT !.read = [done |-> TRUE, prop |-> prop,
                                        value |-> nav.descriptors[prop].value,
                                        restored |-> nav.restored]]
    /\ UNCHANGED <<canvasVars, webgl, raster, meta, limiter, worker, content>>
    /\ UNCHANGED engineVars

NavigatorNext ==
    \/ NavigatorInit
    \/ NavigatorRestore
    \/ NavigatorRead

NavigatorSpec == ScriptsInit /\ [][NavigatorNext]_vars

(***************************************************************************)
(* JitterUtils.createRateLimiter.  Times are in ms.                        *)
(***************************************************************************)
\* the limiter's calls and the clock's steps in a behaviour
MaxCalls == 3
MaxTicks == 6

\* createRateLimiter(maxCallsPerSecond): minInterval = 1000 / maxCallsPerSecond,
\* lastCallTime = 0
CreateRateLimiter ==
    /\ limiter.minInterval = 0
    /\ \E maxCallsPerSecond \in {4, 10} :
           limiter' = [limiter EXCEPT !.minInterval = 1000 \div maxCallsPerSecond,
                                      !.lastCallTime = 0]
    /\ UNCHANGED <<canvasVars, webgl, raster, meta, nav, worker, content>>
    /\ UNCHANGED engineVars

\* a call of the limiter, up to its await or, with no delay due, to its end
LimiterCall ==
    /\ limiter.minInterval # 0
    /\ limiter.issued < MaxCalls
    /\ limiter' =
           IF limiter.now - limiter.lastCallTime < limiter.minInterval
           THEN [limiter EXCEPT
                    !.issued = @ + 1,
                    !.waiting = Append(@, limiter.now + (limiter.minInterval
                                              - (limiter.now - limiter.lastCallTime)))]
           ELSE [limiter EXCEPT !.issued = @ + 1,
                                !.lastCallTime = limiter.now,
                                !.resolved = Append(@, limiter.now)]
    /\ UNCHANGED <<canvasVars, webgl, raster, meta, nav, worker, content>>
    /\ UNCHANGED engineVars

\* the timeout of a waiting call has passed: the call resumes after its
\* await, sets lastCallTime = Date.now() and resolves
LimiterResume ==
    /\ \E i \in 1..Len(limiter.waiting) :
           /\ limiter.waiting[i] <= limiter.now
           /\ limiter' = [limiter EXCEPT
                             !.waiting = SubSeq(@, 1, i - 1) \o SubSeq(@, i + 1, Len(@)),
                             !.lastCallTime = limiter.now,
                             !.resolved = Append(@, limiter.now)]
    /\ UNCHANGED <<canvasVars, webgl, raster, meta, nav, worker, content>>
    /\ UNCHANGED engineVars

\* time passes
Tick ==
    /\ limiter.now < StartTime + (MaxTicks * TickMs)
    /\ limiter' = [limiter EXCEPT !.now = @ + TickMs]
    /\ UNCHANGED <<canvasVars, webgl, raster, meta, nav, worker, content>>
    /\ UNCHANGED engineVars

LimiterNext ==
    \/ CreateRateLimiter
    \/ LimiterCall
    \/ LimiterResume
    \/ Tick

LimiterSpec == ScriptsInit /\ [][LimiterNext]_vars

(***************************************************************************)
(* The background service worker.  A handler in flight is a record: its    *)
(* kind, its tab, and the await it is suspended at (pc).                   *)
(***************************************************************************)
\* the tabs of the browser, and the main-frame navigations in a behaviour
TabIds == {1, 2}
MaxNavigations == 3

\* the ticks of the worker's clock in a behaviour
MaxWorkerTicks == 3

\* the page variables other than worker
besideWorker == <<canvasVars, webgl, raster, meta, nav, limiter, content>>

\* handler h goes on to the await next
Suspended(w, h, next) == [w EXCEPT !.handlers = (@ \ {h}) \cup {[h EXCEPT !.pc = next]}]

\* 'updateSettings' from the popup: auto-rotate switched on, with an interval
UpdateSettings ==
    /\ ~worker.local.autoRotate
    /\ worker' = [worker EXCEPT !.local.autoRotate = TRUE, !.local.rotateInterval = 100]
    /\ UNCHANGED besideWorker
    /\ UNCHANGED engineVars

\* tabs.onCreated: chrome.storage.session.set is called and awaited
TabCreated ==
    /\ \E tab \in TabIds \ (worker.open \cup worker.closed) :
           worker' = [worker EXCEPT !.open = @ \cup {tab},
                                    !.handlers = @ \cup {[kind |-> "created", tab |-> tab,
                                                          pc |-> "set", at |-> 0]}]
    /\ UNCHANGED besideWorker
    /\ UNCHANGED engineVars

\* tabs.onRemoved: chrome.storage.session.remove is called and awaited
TabRemoved ==
    /\ \E tab \in worker.open :
           worker' = [worker EXCEPT !.open = @ \ {tab}, !.closed = @ \cup {tab},
                                    !.handlers = @ \cup {[kind |-> "removed", tab |-> tab,
                                                          pc |-> "remove", at |-> 0]}]
    /\ UNCHANGED besideWorker
    /\ UNCHANGED engineVars

\* webNavigation.onBeforeNavigate of a main frame: checkProfileRotation(tabId)
\* up to its await of chrome.storage.local.get
BeforeNavigate ==
    /\ worker.navigations < MaxNavigations
    /\ \E tab \in worker.open :
           worker' = [worker EXCEPT !.navigations = @ + 1,
                                    !.handlers = @ \cup {[kind |-> "check", tab |-> tab,
                                                          pc |-> "get", at |-> 0]}]
    /\ UNCHANGED besideWorker
    /\ UNCHANGED engineVars

\* 'rotateProfile' from the tab, or the context menu: rotateTabProfile(tabId)
\* up to its await of chrome.storage.session.set
RotateRequested ==
    /\ \E tab \in worker.open :
           worker' = [worker EXCEPT !.handlers = @ \cup {[kind |-> "rotate", tab |-> tab,
                                                          pc |-> "set", at |-> 0]}]
    /\ UNCHANGED besideWorker
    /\ UNCHANGED engineVars

\* checkProfileRotation() after chrome.storage.local.get: with auto-rotate on
\* and now - lastRotation > rotateInterval it calls rotateTabProfile(), which
\* runs up to its await of chrome.storage.session.set
CheckSettings ==
    /\ \E h \in worker.handlers :
           /\ h.kind = "check" /\ h.pc = "get"
           /\ worker' =
                  IF /\ worker.local.autoRotate
                     /\ worker.now - worker.local.lastRotation > worker.local.rotateInterval
                  THEN [worker EXCEPT
                           !.handlers = (@ \ {h}) \cup {[h EXCEPT !.pc = "set", !.at = worker.now]},
                           !.rotations = Append(@, worker.now)]
                  ELSE [worker EXCEPT !.handlers = @ \ {h}]
    /\ UNCHANGED besideWorker
    /\ UNCHANGED engineVars

\* chrome.storage.session.set settles: the entry tab_<id> is written;
\* onCreated ends, rotateTabProfile() goes on to chrome.tabs.sendMessage
SessionSetOf(tab) ==
    /\ \E h \in worker.handlers :
           /\ h.tab = tab /\ h.pc = "set"
           /\ LET Written(w) == [w EXCEPT !.session = @ \cup {tab},
                                          !.late = IF /\ tab \in worker.closed
                                                      /\ \A g \in worker.handlers : g.tab = tab => g.kind # "removed"
                                                   THEN @ \cup {tab} ELSE @]
              IN  worker' = IF h.kind = "created"
                            THEN Written([worker EXCEPT !.handlers = @ \ {h}])
                            ELSE Written(Suspended(worker, h, "send"))
    /\ UNCHANGED besideWorker
    /\ UNCHANGED engineVars

SessionSet == \E tab \in TabIds : SessionSetOf(tab)

\* chrome.tabs.sendMessage settles or rejects: rotateTabProfile() ends, and
\* checkProfileRotation() goes on to chrome.storage.local.set
MessageSentOf(tab) ==
    /\ \E h \in worker.handlers :
           /\ h.tab = tab /\ h.pc = "send"
           /\ worker' = IF h.kind = "rotate" THEN [worker EXCEPT !.handlers = @ \ {h}]
                        ELSE Suspended(worker, h, "write")
    /\ UNCHANGED besideWorker
    /\ UNCHANGED engineVars

MessageSent == \E tab \in TabIds : MessageSentOf(tab)

\* chrome.storage.local.set({ lastRotation: now }) settles
LastRotationSet ==
    /\ \E h \in worker.handlers :
           /\ h.pc = "write"
           /\ worker' = [worker EXCEPT !.local.lastRotation = h.at, !.handlers = @ \ {h}]
    /\ UNCHANGED besideWorker
    /\ UNCHANGED engineVars

\* chrome.storage.session.remove of onRemoved settles
SessionRemoveOf(tab) ==
    /\ \E h \in worker.handlers :
           /\ h.tab = tab /\ h.pc = "remove"
           /\ worker' = [worker EXCEPT !.session = @ \ {h.tab}, !.handlers = @ \ {h}]
    /\ UNCHANGED besideWorker
    /\ UNCHANGED engineVars

SessionRemove == \E tab \in TabIds : SessionRemoveOf(tab)

\* the interval of the periodic cleanup fires: chrome.tabs.query is awaited
CleanupTimer ==
    /\ worker.cleanup.pc = "idle"
    /\ worker' = [worker EXCEPT !.cleanup.pc = "query"]
    /\ UNCHANGED besideWorker
    /\ UNCHANGED engineVars

\* a periodic cleanup that removes no key
CleanupStep_keepAll ==
    /\ worker.cleanup.pc # "idle"
    /\ worker' =
           CASE worker.cleanup.pc = "query" ->
                    [worker EXCEPT !.cleanup.pc = "get", !.cleanup.active = worker.open]
             [] worker.cleanup.pc = "get" ->
                    [worker EXCEPT !.cleanup.pc = "remove", !.cleanup.keys = worker.session]
             [] OTHER ->
                    [worker EXCEPT !.cleanup = [pc |-> "idle", active |-> {}, keys |-> {}]]
    /\ UNCHANGED <<canvasVars, webgl, raster, meta, nav, limiter, content>>
    /\ UNCHANGED engineVars

\* the periodic cleanup goes on after an await: the open tabs are taken,
\* then the stored keys, then the keys of tabs not among those open are
\* removed one after the other
CleanupStep ==
    /\ worker.cleanup.pc # "idle"
    /\ worker' =
           CASE worker.cleanup.pc = "query" ->
                    [worker EXCEPT !.cleanup.pc = "get", !.cleanup.active = worker.open]
             [] worker.cleanup.pc = "get" ->
                    [worker EXCEPT !.cleanup.pc = "remove", !.cleanup.keys = worker.session]
             [] OTHER ->
                    IF worker.cleanup.keys \ worker.cleanup.active = {}
                    THEN [worker EXCEPT !.cleanup = [pc |-> "idle", active |-> {}, keys |-> {}]]
                    ELSE \* the first orphaned key
                         LET Removed(tab) == [worker EXCEPT !.session = @ \ {tab},
                                                            !.cleanup.keys = @ \ {tab}]
                         IN  Removed(CHOOSE tab \in worker.cleanup.keys \ worker.cleanup.active :
                                         \A other \in worker.cleanup.keys \ worker.cleanup.active :
                                             tab <= other)
    /\ UNCHANGED besideWorker
    /\ UNCHANGED engineVars

\* time passes
WorkerTick ==
    /\ worker.now < StartTime + (MaxWorkerTicks * TickMs)
    /\ worker' = [worker EXCEPT !.now = @ + TickMs]
    /\ UNCHANGED besideWorker
    /\ UNCHANGED engineVars

\* the worker with navigations and auto-rotate
RotationNext ==
    \/ UpdateSettings
    \/ TabCreated
    \/ BeforeNavigate
    \/ CheckSettings
    \/ SessionSet
    \/ MessageSent
    \/ LastRotationSet
    \/ WorkerTick

RotationSpec == ScriptsInit /\ [][RotationNext]_vars

\* the worker with tabs that open and close, rotations on request, and the
\* periodic cleanup
TabNext ==
    \/ TabCreated
    \/ TabRemoved
    \/ RotateRequested
    \/ SessionSet
    \/ MessageSent
    \/ SessionRemove
    \/ CleanupTimer
    \/ CleanupStep

\* every storage call and every message of a handler settles, the interval
\* of the cleanup fires again and again, and a cleanup under way goes on
TabFairness ==
    /\ \A tab \in TabIds : WF_vars(SessionSetOf(tab))
    /\ \A tab \in TabIds : WF_vars(MessageSentOf(tab))
    /\ \A tab \in TabIds : WF_vars(SessionRemoveOf(tab))
    /\ WF_vars(CleanupTimer)
    /\ WF_vars(CleanupStep)

TabSpec == ScriptsInit /\ [][TabNext]_vars /\ TabFairness

(***************************************************************************)
(* The content script.  page is how far the injected script has come:      *)
(* "loading", "profile" (window.__chameleon_profile set and                *)
(* chameleon-profile-ready dispatched), "ready" (chameleon-ready           *)
(* dispatched) or "failed" (window.__chameleon_init_failed set).           *)
(***************************************************************************)
\* the messages a content script receives in a behaviour
MaxMessages == 3

\* the actions of the messages sent to the content script
MessageActions == {"regenerateProfile", "getStatus"}

\* the page variables other than content
besideContent == <<canvasVars, webgl, raster, meta, nav, limiter, worker>>

Response(success, reason, initialized) ==
    [success |-> success, reason |-> reason, initialized |-> initialized]

Answered(c, action, response) ==
    [c EXCEPT !.messages = @ + 1,
              !.last = [done |-> TRUE, action |-> action, response |-> response]]

\* a listener that dispatches chameleon-regenerate whether initialized or not
onMessage_eager(c, action) ==
    IF action = "regenerateProfile"
    THEN Answered([c EXCEPT !.dispatched = @ + 1, !.pending = @ + 1],
                  action, Response(TRUE, "", FALSE))
    ELSE Answered(c, action, Response(FALSE, "", c.isInitialized))

\* the chrome.runtime.onMessage listener, for 'regenerateProfile' and 'getStatus'
onMessage(c, action) ==
    IF action = "regenerateProfile"
    THEN IF c.isInitialized
         THEN Answered([c EXCEPT !.dispatched = @ + 1, !.pending = @ + 1],
                       action, Response(TRUE, "", FALSE))
         ELSE Answered(c, action, Response(FALSE, "Not initialized", FALSE))
    ELSE Answered(c, action, Response(FALSE, "", c.isInitialized))

\* a message arrives
OnMessage ==
    /\ content.messages < MaxMessages
    /\ \E action \in MessageActions : content' = onMessage(content, action)
    /\ UNCHANGED besideContent
    /\ UNCHANGED engineVars

\* the injected script publishes the profile and dispatches
\* chameleon-profile-ready; the content script's listener runs
PageProfileReady ==
    /\ content.page = "loading"
    /\ content' = [content EXCEPT !.page = "profile", !.profileData = TRUE,
                                  !.isInitialized = TRUE]
    /\ UNCHANGED besideContent
    /\ UNCHANGED engineVars

\* the injected script dispatches chameleon-ready; the listener runs
PageReady ==
    /\ content.page = "profile"
    /\ content' = [content EXCEPT !.page = "ready", !.profileData = TRUE,
                                  !.isInitialized = TRUE]
    /\ UNCHANGED besideContent
    /\ UNCHANGED engineVars

\* the injected script gives up: window.__chameleon_init_failed
PageFailed ==
    /\ content.page = "loading"
    /\ content' = [content EXCEPT !.page = "failed"]
    /\ UNCHANGED besideContent
    /\ UNCHANGED engineVars

\* the page's chameleon-regenerate listener ends: it dispatches
\* chameleon-profile-ready again
PageRegenerated ==
    /\ content.pending > 0
    /\ content' = [content EXCEPT !.pending = @ - 1, !.profileData = TRUE,
                                  !.isInitialized = TRUE]
    /\ UNCHANGED besideContent
    /\ UNCHANGED engineVars

\* loadModules() has ended: the poll and its timeout are set
ModulesLoaded ==
    /\ content.poll = "none"
    /\ content' = [content EXCEPT !.poll = "running"]
    /\ UNCHANGED besideContent
    /\ UNCHANGED engineVars

\* a tick of the poll that finds the profile or the failure flag
CheckInit ==
    /\ content.poll = "running"
    /\ content.page # "loading"
    /\ content' = IF content.page \in {"profile", "ready"}
                  THEN [content EXCEPT !.profileData = TRUE, !.isInitialized = TRUE,
                                       !.poll = "stopped"]
                  ELSE [content EXCEPT !.poll = "stopped"]
    /\ UNCHANGED besideContent
    /\ UNCHANGED engineVars

\* the timeout of the poll
PollTimeout ==
    /\ content.poll = "running"
    /\ content' = [content EXCEPT !.poll = "stopped"]
    /\ UNCHANGED besideContent
    /\ UNCHANGED engineVars

ContentNext ==
    \/ OnMessage
    \/ PageProfileReady
    \/ PageReady
    \/ PageFailed
    \/ PageRegenerated
    \/ ModulesLoaded
    \/ CheckInit
    \/ PollTimeout

ContentSpec == ScriptsInit /\ [][ContentNext]_vars

(***************************************************************************)
(* Properties.                                                             *)
(***************************************************************************)
ProfileCalls == {"init", "getCurrentProfile", "regenerateProfile"}

\* C1: for a fixed seed, random(index) returns on every call the value it
\* returned the first time for that seed and index, whatever was drawn
\* before or in between, and a draw made when a seed exists leaves
\* currentSeed and domainSeeds as they were.
C1_DrawDeterministic ==
    [][ lastCall'.op = "random" =>
            /\ lastCall'.draw = seen'[currentSeed'.s][lastCall'.index]
            /\ Truthy(currentSeed) => (currentSeed' = currentSeed /\ domainSeeds' = domainSeeds)
      ]_vars

\* index 1 drawn again after index 5 has been drawn from the same seed
C1_Witness ==
    /\ lastCall.op = "random"
    /\ lastCall.index = 1
    /\ lastCall.again
    /\ seen[currentSeed.s][5] # NoDrawYet

\* C2: every value random() returns, num / 0xFFFFFFFF, is at least 0 and
\* strictly below 1.
C2_DrawInUnitInterval ==
    lastCall.op = "random" =>
        /\ ~Lt32(lastCall.draw, <<0, 0>>)
        /\ DrawBelowOne(lastCall.draw)

\* C3: two Profiles built from the same seed and the same catalog are equal
\* field for field.
C3_SameSeedSameProfile ==
    \A a, b \in built :
        (a.seed = b.seed /\ a.profiles = b.profiles) => a.profile = b.profile

\* a Profile built from a seed and catalog a Profile was built from before
C3_Witness ==
    /\ lastCall.op \in ProfileCalls
    /\ ~lastCall.threw
    /\ lastCall.again

\* C4: in every Profile the platform and vendor strings follow the OS family
\* of os.name: Windows gives Win32, macOS gives MacIntel and the Apple
\* vendor, Linux gives Linux x86_64.
OSFamilyCoherent(p) ==
    /\ OptIncludes(p.os.name, "Windows") =>
           (p.os.platform = Str("Win32") /\ p.navigator.platform = Str("Win32"))
    /\ OptIncludes(p.os.name, "macOS") =>
           /\ p.os.platform = Str("MacIntel")
           /\ p.navigator.platform = Str("MacIntel")
           /\ p.navigator.vendor = Str("Apple Computer, Inc.")
    /\ OptIncludes(p.os.name, "Linux") =>
           (p.os.platform = Str("Linux x86_64") /\ p.navigator.platform = Str("Linux x86_64"))

C4_PlatformVendorMatchOS == \A b \in built : OSFamilyCoherent(b.profile)

\* C5: no two different attributes of one Profile are derived from draws
\* with the same index.
C5_IndicesPairwiseDistinct ==
    \A d1, d2 \in lastDraws : d1.purpose # d2.purpose => d1.index # d2.index

\* C6: hardwareConcurrency is one of the core counts of the tier of the CPU
\* chosen, and the built-in default archetype gives cpu 'Intel Core i5',
\* hardwareConcurrency in {6, 8, 12} and platform 'Win32'.
TierCoreCounts(cpu) ==
    LET c == toLowerCase(cpu)
    IN  IF Includes(c, "i9") \/ Includes(c, "ryzen 9") \/ Includes(c, "threadripper")
        THEN {16, 20, 24, 32}
        ELSE IF Includes(c, "i7") \/ Includes(c, "ryzen 7") THEN {8, 12, 16}
        ELSE IF Includes(c, "i5") \/ Includes(c, "ryzen 5") THEN {6, 8, 12}
        ELSE IF Includes(c, "i3") \/ Includes(c, "ryzen 3") THEN {4, 6}
        ELSE IF Includes(c, "m1") \/ Includes(c, "m2") \/ Includes(c, "m3") THEN {8}
        ELSE IF Includes(c, "celeron") \/ Includes(c, "pentium") THEN {2, 4}
        ELSE {4}

C6_CoreCountInTier ==
    \A b \in built :
        LET hw == b.profile.hardware
        IN  /\ hw.cpu.t = "string" =>
                   hw.hardwareConcurrency \in {Num(n) : n \in TierCoreCounts(hw.cpu.s)}
            /\ b.profile.archetype = Str("Default Windows PC") =>
                   /\ hw.cpu = Str("Intel Core i5")
                   /\ hw.hardwareConcurrency \in {Num(6), Num(8), Num(12)}
                   /\ b.profile.os.platform = Str("Win32")

\* C7: a Profile of an archetype whose name has none of Laptop, Tablet,
\* 2-in-1 has battery charging true, chargingTime 0, dischargingTime
\* Infinity and level 1.0.
IsDesktop(p) ==
    /\ p.archetype.t = "string"
    /\ ~Includes(p.archetype.s, "Laptop")
    /\ ~Includes(p.archetype.s, "Tablet")
    /\ ~Includes(p.archetype.s, "2-in-1")

C7_DesktopAlwaysPluggedIn ==
    \A b \in built :
        IsDesktop(b.profile) =>
            /\ b.profile.battery.charging = TRUE
            /\ b.profile.battery.chargingTime = Num(0)
            /\ b.profile.battery.dischargingTime = JsInfinity
            /\ b.profile.battery.level = FullLevel

\* Profiles of a desktop archetype built from both seeds
C7_Witness ==
    \A seed \in SeedPool : \E b \in built : b.seed = seed /\ IsDesktop(b.profile)

\* C8: when loading the catalog fails, the catalog is the single built-in
\* archetype 'Default Windows PC' of weight 1, and init and getCurrentProfile
\* return a Profile of it without throwing.
C8_FallbackOnLoadFailure ==
    (~catalogFile.ok /\ profiles # NoProfiles) =>
        /\ profiles.kind = "array"
        /\ Len(profiles.list) = 1
        /\ profiles.list[1].name = "Default Windows PC"
        /\ profiles.list[1].weight = 1
        /\ lastCall.op \in {"init", "getCurrentProfile"} =>
               /\ ~lastCall.threw
               /\ currentProfile # JsNull
               /\ currentProfile.archetype = Str("Default Windows PC")

\* init() has returned after a failed load
C8_Witness ==
    /\ ~catalogFile.ok
    /\ lastCall.op = "init"
    /\ ~lastCall.threw
    /\ currentProfile # JsNull

\* C9: for an archetype that lacks a catalog field, generateProfile does not
\* throw and the Profile has the built-in default in that field: OS
\* 'Windows 11', resolution '1920x1080', a CPU, a GPU, and no null or
\* undefined in the RAM, locale and fonts fields.
C9_MissingFieldsGetDefaults ==
    /\ (profiles = ProfileArray(SparseCatalog) /\ seedManager /\ lastCall.op \in ProfileCalls)
           => ~lastCall.threw
    /\ \A b \in built :
           LET a == selectArchetype(b.seed, b.profiles.list)
               p == b.profile
           IN  /\ ~Has(a, "os") => p.os.name = Str("Windows 11")
               /\ ~Has(a, "resolutions") => p.display.resolution = Str("1920x1080")
               /\ ~Has(a, "cpu") => p.hardware.cpu.t = "string"
               /\ ~Has(a, "gpu") => (p.hardware.gpu.defined /\ p.hardware.gpu.model.t = "string")
               /\ ~Has(a, "ram") => p.hardware.deviceMemory.t = "number"
               /\ ~Has(a, "languages") => p.locale.language.t = "string"

\* C10: getCurrentProfile and regenerateProfile never throw and leave a
\* Profile, in every reachable state.
C10_ProfileCallsNeverThrow ==
    lastCall.op \in {"getCurrentProfile", "regenerateProfile"} =>
        (~lastCall.threw /\ currentProfile # JsNull)

\* C11: a regenerateProfile() that returns has issued a seed, made it the
\* current seed and the seed the map holds for the current domain, and
\* returns a newly synthesized Profile whose seed field is that seed; the
\* Profile object that was current before reads as it did.
C11_RegenerateIssuesSeedAndProfile ==
    [][ (RegenerateProfile /\ ~lastCall'.threw) =>
            /\ lastCall'.issued # ""
            /\ currentSeed' = Str(lastCall'.issued)
            /\ MapGet(domainSeeds', getCurrentDomain(hostname)) = currentSeed'
            /\ currentProfile' # JsNull
            /\ currentProfile'.seed = lastCall'.issued
            /\ currentProfile' = generateProfile(lastCall'.issued, profiles)
            /\ heldProfile' = currentProfile ]_vars

\* a regenerateProfile() that replaced a Profile by one of another seed
C11_Witness ==
    /\ lastCall.op = "regenerateProfile"
    /\ ~lastCall.threw
    /\ heldProfile # JsNull
    /\ currentProfile # JsNull
    /\ heldProfile.seed # currentProfile.seed
    /\ MapGet(domainSeeds, getCurrentDomain(hostname)) = Str(currentProfile.seed)

C13_MapBoundedOldestEvicted ==
    [][ /\ Len(domainSeeds') <= MAX_DOMAIN_SEEDS
        /\ (GenerateSeed \/ (GetSeed /\ SeedIssued(SM, hostname))) =>
               /\ MapGet(domainSeeds', getCurrentDomain(hostname)) = currentSeed'
               /\ ( /\ Len(domainSeeds) = MAX_DOMAIN_SEEDS
                    /\ ~MapHas(domainSeeds, getCurrentDomain(hostname)) )
                  => domainSeeds' = Tail(domainSeeds) \o
                                        << <<getCurrentDomain(hostname), currentSeed'>> >> ]_vars

\* the map is full after an insertion that removed the first domain's entry
C13_Witness ==
    /\ Len(domainSeeds) = MAX_DOMAIN_SEEDS
    /\ ~MapHas(domainSeeds, DomainName(1))
    /\ MapHas(domainSeeds, DomainName(2))
    /\ MapHas(domainSeeds, DomainName(MAX_DOMAIN_SEEDS + 1))

\* C14: the seed getSeed() returns is the seed the map holds for the
\* current domain.
C14_SeedOfCurrentDomain ==
    [][ GetSeed => MapGet(domainSeeds', getCurrentDomain(hostname)) = currentSeed' ]_vars

\* C15: after applyEdgeNoise the buffer has the bytes it had before, except
\* possibly red, green and blue bytes of interior pixels whose Sobel
\* magnitude exceeds 30; border pixels, other pixels and alpha bytes are as
\* they were.
C15_OnlyEdgePixelsDiffer ==
    noiseCall.done =>
        /\ Len(noiseCall.output) = Len(noiseCall.input.data)
        /\ \A i \in 1..Len(noiseCall.output) :
               noiseCall.output[i] # noiseCall.input.data[i] =>
                   /\ (i - 1) % 4 < 3
                   /\ (i - 1) \div 4 < noiseCall.input.width * noiseCall.input.height
                   /\ EdgeAt(noiseCall.input, ((i - 1) \div 4) % noiseCall.input.width,
                             ((i - 1) \div 4) \div noiseCall.input.width)

\* applyEdgeNoise has run on a well-formed buffer whose interior pixel is an
\* edge beside pixels that are none
C15_Witness ==
    /\ noiseCall.done
    /\ WellFormed(noiseCall.input)
    /\ EdgeAt(noiseCall.input, 1, 1)
    /\ ~EdgeAt(noiseCall.input, 0, 1)

\* C16: when some pixel qualifies for noise, applyEdgeNoise returns an
\* object other than its argument and the argument keeps its bytes; it
\* returns its argument only when no pixel qualifies.
C16_CallerBufferNotMutated ==
    noiseCall.done =>
        IF HasEdge(noiseCall.input)
        THEN ~noiseCall.returnsArgument /\ imageData.data = noiseCall.input.data
        ELSE noiseCall.returnsArgument

\* C17: for a well-formed buffer with an edge pixel, the bytes applyEdgeNoise
\* leaves under one seed differ from the bytes it leaves under every other
\* seed.
C17_SeedsGiveDifferentNoise ==
    (noiseCall.done /\ WellFormed(noiseCall.input) /\ HasEdge(noiseCall.input)) =>
        \A other \in SeedPool \ {noiseCall.seed} :
            applyEdgeNoise(other, noiseCall.input) # noiseCall.output

\* C18: for a buffer whose byte length is not width x height x 4,
\* applyEdgeNoise returns its argument with every byte as it was, does not
\* throw, and reports a diagnostic.
C18_MalformedReportedUnchanged ==
    (noiseCall.done /\ ~WellFormed(noiseCall.input)) =>
        /\ noiseCall.returnsArgument
        /\ noiseCall.output = noiseCall.input.data
        /\ ~noiseCall.threw
        /\ noiseCall.diagnostic

\* draw x totalWeight <= cumulative, for the draw num / 0xFFFFFFFF, in exact
\* arithmetic: num * totalWeight + cumulative <= cumulative * 2^32, compared
\* digit by digit in base 65536
CrossesZero(num, totalWeight, cumulative) ==
    LET Compare(low, high) ==
            \/ high \div W16 < cumulative
            \/ (high \div W16 = cumulative /\ high % W16 = 0 /\ low % W16 = 0)
    IN  Compare((num[2] * totalWeight) + cumulative,
                (num[1] * totalWeight) + (((num[2] * totalWeight) + cumulative) \div W16))

\* C19: randomWeightedChoice over a non-empty list with strictly positive
\* weights returns the first item at which draw x totalWeight minus the
\* cumulative weight is zero or less, returns the last item when there is no
\* such item, and what it returns is one of the items.
C19_WeightedChoiceFirstCrossing ==
    (/\ fieldCall.op = "randomWeightedChoice"
     /\ Len(fieldCall.items) > 0
     /\ \A i \in 1..Len(fieldCall.weights) : fieldCall.weights[i] > 0) =>
        LET Crossed(i) == CrossesZero(fieldCall.draw,
                                      SumTo(fieldCall.weights, Len(fieldCall.weights)),
                                      SumTo(fieldCall.weights, i))
        IN  /\ \E i \in 1..Len(fieldCall.items) : fieldCall.result = fieldCall.items[i]
            /\ \A i \in 1..Len(fieldCall.items) :
                   (Crossed(i) /\ \A j \in 1..(i - 1) : ~Crossed(j)) =>
                       fieldCall.result = fieldCall.items[i]
            /\ (\A i \in 1..Len(fieldCall.items) : ~Crossed(i)) =>
                   fieldCall.result = fieldCall.items[Len(fieldCall.items)]

\* randomWeightedChoice has returned the second of three items: the first
\* cumulative weight was not enough and the second was
C19_Witness ==
    /\ fieldCall.op = "randomWeightedChoice"
    /\ Len(fieldCall.items) = 3
    /\ fieldCall.weights = <<1, 2, 1>>
    /\ fieldCall.result = fieldCall.items[2]

\* C20: randomInt with min > max, and randomChoice or randomWeightedChoice
\* with an empty list, end with an error and not with a value returned.
C20_PreconditionViolationsReported ==
    (\/ fieldCall.op = "randomInt" /\ fieldCall.min > fieldCall.max
     \/ fieldCall.op \in {"randomChoice", "randomWeightedChoice"} /\ Len(fieldCall.items) = 0) =>
        fieldCall.threw

\* C21: randomInt(min, max, index) with min <= max returns an integer from
\* min to max, and randomChoice on a non-empty array returns one of the
\* elements of the array.
C21_RandomIntWithinRange ==
    /\ (fieldCall.op = "randomInt" /\ fieldCall.min <= fieldCall.max) =>
           fieldCall.result.n \in fieldCall.min..fieldCall.max
    /\ (fieldCall.op = "randomChoice" /\ Len(fieldCall.items) > 0) =>
           \E i \in 1..Len(fieldCall.items) : fieldCall.result = fieldCall.items[i]

C24_AdapterServesSynthesizedStrings ==
    webgl.profile # JsNull =>
        /\ getParameter(webgl.parameterMap, "VENDOR") = webgl.profile.webgl.vendor
        /\ getParameter(webgl.parameterMap, "RENDERER") = webgl.profile.webgl.renderer

\* C25: all the toDataURL calls on a canvas since it was last drawn to
\* returned the same bytes, and so did all the getImageData calls.
C25_SameRasterSameBytes ==
    /\ Cardinality(raster.urls) <= 1
    /\ Cardinality(raster.pixels) <= 1

\* toDataURL and getImageData were each called twice or more on a canvas
\* that has an edge pixel, with nothing drawn in between
C25_Witness ==
    /\ raster.urlCalls = 2
    /\ raster.pixelCalls = 2
    /\ HasEdge(raster.bitmap)

\* C22: once MetaInterceptor.init() has run, Function.prototype.toString of
\* a function registered through markAsIntercepted or createNativeFunction
\* returns a '[native code]' signature.
C22_RegisteredFunctionsLookNative ==
    (meta.initialized /\ meta.last.done /\ meta.last.registered) =>
        Includes(meta.last.result, "[native code]")

\* C23: after restore(), with no init() since, every spoofable property
\* reads the value it had before the first init(), whatever the number of
\* init() calls before the restore().
C23_RestoreReinstatesOriginals ==
    (nav.read.done /\ nav.read.restored) =>
        nav.read.value = NavigatorDescriptors[nav.read.prop].value

\* C26: any two calls of a limiter resolve at least minInterval = 1000 / n ms
\* apart.
C26_CallsResolveAnIntervalApart ==
    \A i, j \in 1..Len(limiter.resolved) :
        i < j => limiter.resolved[j] - limiter.resolved[i] >= limiter.minInterval

\* C27: any two rotations made by checkProfileRotation are more than
\* rotateInterval ms apart.
C27_OneRotationPerInterval ==
    \A i, j \in 1..Len(worker.rotations) :
        i < j => worker.rotations[j] - worker.rotations[i] > worker.local.rotateInterval

C29_RegenerateOnlyOnceInitialized ==
    /\ [][content.isInitialized => content'.isInitialized]_vars
    /\ [][content'.messages = content.messages + 1 /\ content'.last.action = "regenerateProfile"
          => IF content.isInitialized
             THEN /\ content'.dispatched = content.dispatched + 1
                  /\ content'.last.response.success
             ELSE /\ content'.dispatched = content.dispatched
                  /\ ~content'.last.response.success
                  /\ content'.last.response.reason = "Not initialized"]_vars
    /\ [][content'.messages = content.messages => content'.dispatched = content.dispatched]_vars

\* a 'regenerateProfile' message was refused before initialization, and the
\* next one, after initialization, dispatched the event and succeeded
C29_Witness ==
    /\ content.last.done
    /\ content.last.action = "regenerateProfile"
    /\ content.last.response.success
    /\ content.messages = 2
    /\ content.dispatched = 1

=============================================================================
